---- MODULE Spec2Model ----
(***************************************************************************)
(* Java runtime management of DropOut (src-tauri/src/core/java, core/     *)
(* downloader.rs, utils/zip.rs): the install orchestrator with its        *)
(* persisted pending queue, the Adoptium catalog client with its retry    *)
(* loops and TTL cache, and the atomic file writer.                       *)
(***************************************************************************)
EXTENDS Integers, Sequences, FiniteSets, TLC

VARIABLES
    \* ---- install orchestrator (core/java/install.rs) ----
    queueFile,    \* java_download_queue.json: [present, entries]
    pc,           \* per call slot: position inside download_and_install
    call,         \* per call slot: the arguments (major, image_type, base)
    info,         \* per call slot: the JavaDownloadInfo of fetch_release
    memQueue,     \* per call slot: the in-memory DownloadQueue (`queue`)
    result,       \* per call slot: Ok / Err(kind) of the call
    registered,   \* per call slot: queue.save at install.rs:50 returned Ok
    queueAtCall   \* per call slot: the persisted queue when the call began,
                  \* kept until the entry is registered and the archive looked up

installVars == <<queueFile, pc, call, info, memQueue, result, registered, queueAtCall>>

VARIABLES
    \* ---- catalog retry loops (core/java/providers/adoptium.rs) ----
    retryFn,      \* which loop runs: "releases" or "assets"
    retryScript,  \* what the server answers to the 1st, 2nd, ... request
    retryOut      \* what the loop returned, with its requests and sleeps

retryVars == <<retryFn, retryScript, retryOut>>

VARIABLES
    \* ---- catalog client and TTL cache (adoptium.rs, cache.rs) ----
    now,          \* the system clock, UNIX seconds past a base instant
    cacheFile,    \* java_catalog_cache.json: [present, parses, catalog]
    fcPc,         \* position inside fetch_catalog
    fcForce,      \* the force_refresh argument
    fcLoad,       \* what load_cached_catalog_result returned to the call
    cacheAtCall,  \* the cache file when the call began
    fcRel,        \* what fetch_available_releases_with_retry returned
    fcTasks,      \* the spawned asset queries, in spawn order
    permits,      \* free permits of the catalog semaphore
    fcSave,       \* what save_catalog_cache returned to the call
    fcResult      \* what fetch_catalog returned

catalogVars == <<now, cacheFile, fcPc, fcForce, fcLoad, cacheAtCall, fcRel,
                 fcTasks, permits, fcSave, fcResult>>

VARIABLES
    \* ---- write_file_atomic step by step (cache.rs, persistence.rs) ----
    fsPath,    \* the file at path: [exists, data, complete]
    fsTmp,     \* the file at path.with_extension("tmp")
    wPc,       \* position inside write_file_atomic
    wContent,  \* the content argument of the call
    wOld,      \* the file at path when the call began
    wResult    \* what the call returned

writerVars == <<fsPath, fsTmp, wPc, wContent, wOld, wResult>>

VARIABLES
    \* ---- archive extraction (utils/zip.rs) ----
    exPc,      \* position inside extract_tar_gz / extract_zip
    exKind,    \* "tar" or "zip"
    exCount,   \* entries of the archive read so far
    exLast,    \* the paths, relative to extract_to, the last entry created
    exTop,     \* top_level_dir of extract_tar_gz: <<>> is None
    exUnsafe,  \* an entry with a ".." or root component has been read
    exResult   \* what the extraction returned

extractVars == <<exPc, exKind, exCount, exLast, exTop, exUnsafe, exResult>>

VARIABLES
    \* ---- download engine (core/downloader.rs) ----
    cancelFlag,        \* the process-scoped cancel flag
    dfPc,              \* position inside download_files
    dfTasks,           \* the tasks of the running download_files call
    dfPermits,         \* free permits of its semaphore
    dfStartEvents,     \* download-start events emitted by the call
    dfCompleteEvents,  \* download-complete events emitted by the call
    dfResult,          \* what download_files returned
    rsPc,              \* position inside download_with_resume
    rsSum,             \* whether a checksum was passed to it
    rsWritten,         \* chunks it has appended to the file
    rsDiskOk,          \* the bytes on disk at the end match the checksum
    rsResult,          \* what download_with_resume returned
    rsEntry            \* the pending-queue entry of the calling install

downloadVars == <<cancelFlag, dfPc, dfTasks, dfPermits, dfStartEvents,
                  dfCompleteEvents, dfResult, rsPc, rsSum, rsWritten, rsDiskOk,
                  rsResult, rsEntry>>

VARIABLES
    \* ---- version parsing (core/java.rs) ----
    pjCalled,   \* parse_java_version has been called
    pjVersion,  \* the version string it was given, as a sequence of characters
    pjMajor     \* the major version it returned

versionVars == <<pjCalled, pjVersion, pjMajor>>

VARIABLES
    \* ---- compatibility resolver (core/java/priority.rs, core/java/mod.rs) ----
    rjFn,       \* the function running: resolve, compatible or recommended
    rjPc,       \* position inside it
    rjMin,      \* required_major_version: {} is None
    rjMax,      \* max_major_version: {} is None
    rjTried,    \* the candidates of the layers tried so far, in order
    rjList,     \* installations: the detected and managed installations
    rjIdx,      \* position of find in installations
    rjChecked,  \* the last version comparison: its major version and verdict
    rjResult,   \* the installation returned: {} is None
    rjLayer     \* the layer that gave the result, 0 for none

resolveVars == <<rjFn, rjPc, rjMin, rjMax, rjTried, rjList, rjIdx, rjChecked,
                 rjResult, rjLayer>>

VARIABLES
    \* ---- resume failure classifier (core/java/error.rs) ----
    feCalled,   \* from_error_message has been called
    feMessage,  \* the message it was given, as a sequence of characters
    feReason    \* the reason it returned

classifyVars == <<feCalled, feMessage, feReason>>

VARIABLES
    \* ---- checksum verification (core/downloader.rs) ----
    vcCalled,  \* verify_checksum has been called
    vcData,    \* the data it was given
    vcSha256,  \* the expected SHA-256: {} is None
    vcSha1,    \* the expected SHA-1: {} is None
    vcResult   \* what it returned

checksumVars == <<vcCalled, vcData, vcSha256, vcSha1, vcResult>>

VARIABLES
    \* ---- persistent user config (core/java/persistence.rs) ----
    cfFile,  \* java_config.json: absent, corrupt, or a config
    cfLast   \* the last config operation: its arguments, result and the
             \* config that was persisted before it

configVars == <<cfFile, cfLast>>

VARIABLES
    \* ---- resume of pending downloads (core/java/mod.rs) ----
    rpPc,         \* position inside resume_pending_downloads_with
    rpPending,    \* pending_downloads: the entries listed at the start
    rpIdx,        \* the entry the loop is at
    rpInstalled,  \* installed: the entries whose install returned Ok
    rpFailed,     \* failed: the entries whose install returned Err
    rpTotal,      \* total_pending
    rpResult      \* what the call returned

pendingVars == <<rpPc, rpPending, rpIdx, rpInstalled, rpFailed, rpTotal, rpResult>>

VARIABLES
    \* ---- one install call, statement by statement (core/java/install.rs) ----
    jiPc,          \* position inside download_and_install
    jiSuffix,      \* how info.file_name ends
    jiChecksum,    \* info.checksum is Some
    jiArchive,     \* archive_path is a file on disk
    jiVersionDir,  \* version_dir on disk: absent, installed, empty, partial, extracted
    jiDirAtCall,   \* version_dir on disk when the call began
    jiEntry,       \* the persisted queue holds the entry of (major, image_type)
    jiChunks,      \* chunks download_with_resume has written
    jiEvents,      \* statuses of the java-download-progress events, in order
    jiResult       \* what the call returned

stepVars == <<jiPc, jiSuffix, jiChecksum, jiArchive, jiVersionDir, jiDirAtCall,
              jiEntry, jiChunks, jiEvents, jiResult>>


VARIABLES
    \* ---- config updates on two threads (core/java/persistence.rs) ----
    ccFile,    \* java_config.json
    ccTmp,     \* java_config.tmp: {} when there is none, else {its config}
    ccOld,     \* java_config.json before the updates
    ccPc,      \* per thread: position inside its update
    ccOp,      \* per thread: the update it runs and its argument
    ccConfig,  \* per thread: its local `config`
    ccResult,  \* per thread: what its update returned
    ccSeen     \* what load_java_config returned to a reader while an update ran

updateVars == <<ccFile, ccTmp, ccOld, ccPc, ccOp, ccConfig, ccResult, ccSeen>>


vars == <<installVars, retryVars, catalogVars, writerVars, extractVars, downloadVars, versionVars, resolveVars, classifyVars, checksumVars, configVars, pendingVars, stepVars, updateVars>>

-----------------------------------------------------------------------------
\* Bounds of the model.

\* Number of call slots of download_and_install (calls run one at a time
\* under SpecInstall; the slots are the callers).
NumProcs == 2

Procs == 1..NumProcs

\* Inputs the calls are drawn from.
Majors == {17, 21}
ImageTypes == {"Jre", "Jdk"}
InstallPaths == {"appdata/java", "custom"}
Suffixes == {"tar.gz", "zip", "other"}

-----------------------------------------------------------------------------
\* Pending queue store (DownloadQueue of core/downloader.rs).

\* impl Display for ImageType: Jre -> "jre", Jdk -> "jdk".
ImageTypeToString(t) == IF t = "Jre" THEN "jre" ELSE "jdk"

\* The PendingJavaDownload built at install.rs:37-49. download_url,
\* file_name, file_size, checksum and created_at are carried along and never
\* read by the queue; install_path stands for them as the payload.
PendingJavaDownload(major, image_type, base) ==
    [major_version |-> major,
     image_type    |-> ImageTypeToString(image_type),
     install_path  |-> base]

SameKey(e, major, its) == e.major_version = major /\ e.image_type = its

\* DownloadQueue::load: the entries of the file, the default (empty) queue
\* when the file is missing.
QueueLoad(file) == IF file.present THEN file.entries ELSE <<>>

\* DownloadQueue::remove(major, image_type): drops every entry of the key.
QueueRemove(q, major, its) == SelectSeq(q, LAMBDA e : ~SameKey(e, major, its))

\* DownloadQueue::add: replace-on-key, the key being (major, image_type).
QueueAdd(q, e) == Append(QueueRemove(q, e.major_version, e.image_type), e)

\* Outcomes of DownloadQueue::save (atomic writer): written, failed with the
\* old file intact, failed with no file left.
SaveOutcomes == {"ok", "fail_intact", "fail_gone"}

QueueFileAfterSave(file, q, outcome) ==
    CASE outcome = "ok"          -> [present |-> TRUE, entries |-> q]
      [] outcome = "fail_intact" -> file
      [] outcome = "fail_gone"   -> [present |-> FALSE, entries |-> <<>>]

HasEntry(file, major, its) ==
    \E i \in 1..Len(QueueLoad(file)) : SameKey(QueueLoad(file)[i], major, its)

EntriesOf(file, major, its) ==
    {i \in 1..Len(QueueLoad(file)) : SameKey(QueueLoad(file)[i], major, its)}

-----------------------------------------------------------------------------
\* Install orchestrator: download_and_install_java_with_provider.

NoCall == [major |-> 0, image_type |-> "Jre", base |-> "appdata/java"]
NoInfo == [suffix |-> "other", checksum |-> FALSE, archive |-> "unknown", downloaded |-> FALSE]
NoResult == [status |-> "none", err |-> "none"]
EmptyFile == [present |-> FALSE, entries |-> <<>>]

Ok == [status |-> "ok", err |-> "none"]
Err(kind) == [status |-> "err", err |-> kind]

CallKeyString(p) == ImageTypeToString(call[p].image_type)

\* install.rs:54-64: whether the archive has to be downloaded.
NeedDownload(exists, hasChecksum, matches) ==
    IF exists
    THEN IF hasChecksum THEN ~matches ELSE FALSE
    ELSE TRUE

\* What install.rs:52-58 finds at archive_path: no file, a file with no
\* checksum declared for it, a file that cannot be read, or a file whose
\* bytes match or do not match the declared checksum.
ArchiveFound(exists, hasChecksum, readOk, matches) ==
    IF ~exists THEN "absent"
    ELSE IF ~hasChecksum THEN "unverified"
    ELSE IF ~readOk THEN "unreadable"
    ELSE IF matches THEN "match" ELSE "mismatch"

\* install.rs:77-120, the synchronous block between the download and the
\* validation: the ways it can end for an archive with the given suffix.
ExtractOutcomes(suffix) ==
    {"remove_version_dir", "create_version_dir"} \cup
    (IF suffix \in {"tar.gz", "zip"}
     THEN {"extraction_error", "invalid_archive", "java_not_found",
           "canonicalize", "ok"}
     ELSE {"unsupported_archive"})

InstallInit ==
    /\ queueFile = EmptyFile
    /\ pc = [p \in Procs |-> "idle"]
    /\ call = [p \in Procs |-> NoCall]
    /\ info = [p \in Procs |-> NoInfo]
    /\ memQueue = [p \in Procs |-> <<>>]
    /\ result = [p \in Procs |-> NoResult]
    /\ registered = [p \in Procs |-> FALSE]
    /\ queueAtCall = [p \in Procs |-> EmptyFile]

AllIdle == \A q \in Procs : pc[q] = "idle"

\* What the install orchestrator never touches.
InstallFrame == UNCHANGED <<retryVars, catalogVars, writerVars, extractVars, downloadVars, versionVars, resolveVars, classifyVars, checksumVars, configVars, pendingVars, stepVars, updateVars>>

\* The call begins: install.rs:13-20, up to the await of fetch_release.
InstallStart(p, major, image_type, base) ==
    /\ InstallFrame
    /\ AllIdle
    /\ pc' = [pc EXCEPT ![p] = "fetch_release"]
    /\ call' = [call EXCEPT ![p] = [major |-> major, image_type |-> image_type, base |-> base]]
    /\ info' = [info EXCEPT ![p] = NoInfo]
    /\ memQueue' = [memQueue EXCEPT ![p] = <<>>]
    /\ result' = [result EXCEPT ![p] = NoResult]
    /\ registered' = [registered EXCEPT ![p] = FALSE]
    /\ queueAtCall' = [queueAtCall EXCEPT ![p] = queueFile]
    /\ UNCHANGED queueFile

\* The value a finished call leaves in its slot.
Finish(p, r) ==
    /\ pc' = [pc EXCEPT ![p] = "done"]
    /\ result' = [result EXCEPT ![p] = r]

\* install.rs:20-22: fetch_release fails, the call returns its error.
FetchReleaseErr(p) ==
    /\ InstallFrame
    /\ pc[p] = "fetch_release"
    /\ Finish(p, Err("fetch_release"))
    /\ UNCHANGED <<queueFile, call, info, memQueue, registered, queueAtCall>>

\* install.rs:20-36: fetch_release succeeds, install_base is created and the
\* queue is loaded (or create_dir_all fails and the call returns).
FetchReleaseOk(p, suffix, hasChecksum, mkdirOk) ==
    /\ InstallFrame
    /\ pc[p] = "fetch_release"
    /\ info' = [info EXCEPT ![p] = [suffix |-> suffix, checksum |-> hasChecksum,
                                     archive |-> "unknown", downloaded |-> FALSE]]
    /\ IF mkdirOk
       THEN /\ pc' = [pc EXCEPT ![p] = "register"]
            /\ memQueue' = [memQueue EXCEPT ![p] = QueueLoad(queueFile)]
            /\ UNCHANGED result
       ELSE /\ Finish(p, Err("create_install_dir"))
            /\ UNCHANGED memQueue
    /\ UNCHANGED <<queueFile, call, registered, queueAtCall>>

\* Plausible bug: the entry is pushed onto the list instead of queue.add.
RegisterPendingPush(p, outcome) ==
    /\ InstallFrame
    /\ pc[p] = "register"
    /\ LET q == Append(memQueue[p],
                       PendingJavaDownload(call[p].major, call[p].image_type, call[p].base))
       IN /\ memQueue' = [memQueue EXCEPT ![p] = q]
          /\ queueFile' = QueueFileAfterSave(queueFile, q, outcome)
    /\ IF outcome = "ok"
       THEN /\ pc' = [pc EXCEPT ![p] = "check_archive"]
            /\ registered' = [registered EXCEPT ![p] = TRUE]
            /\ UNCHANGED result
       ELSE /\ Finish(p, Err("queue_save"))
            /\ UNCHANGED registered
    /\ UNCHANGED <<call, info, queueAtCall>>

\* install.rs:37-50: queue.add(PendingJavaDownload{..}); queue.save(..)?
RegisterPending(p, outcome) ==
    /\ InstallFrame
    /\ pc[p] = "register"
    /\ LET q == QueueAdd(memQueue[p],
                         PendingJavaDownload(call[p].major, call[p].image_type, call[p].base))
       IN /\ memQueue' = [memQueue EXCEPT ![p] = q]
          /\ queueFile' = QueueFileAfterSave(queueFile, q, outcome)
    /\ IF outcome = "ok"
       THEN /\ pc' = [pc EXCEPT ![p] = "check_archive"]
            /\ registered' = [registered EXCEPT ![p] = TRUE]
            /\ UNCHANGED result
       ELSE /\ Finish(p, Err("queue_save"))
            /\ UNCHANGED registered
    /\ UNCHANGED <<call, info, queueAtCall>>

\* install.rs:52-64: the archive is looked up and, when a checksum is
\* declared, read and verified.
CheckArchive(p, exists, readOk, matches) ==
    /\ InstallFrame
    /\ pc[p] = "check_archive"
    /\ info' = [info EXCEPT ![p].archive =
                   ArchiveFound(exists, info[p].checksum, readOk, matches)]
    /\ IF exists /\ info[p].checksum /\ ~readOk
       THEN Finish(p, Err("read_archive"))
       ELSE /\ pc' = [pc EXCEPT ![p] =
                        IF NeedDownload(exists, info[p].checksum, matches)
                        THEN "download" ELSE "extract"]
            /\ UNCHANGED result
    /\ queueAtCall' = [queueAtCall EXCEPT ![p] = EmptyFile]
    /\ UNCHANGED <<queueFile, call, memQueue, registered>>

\* Outcomes of download_with_resume (core/downloader.rs).
DownloadOutcomes == {"ok", "download_error", "cancelled", "checksum_mismatch"}

\* install.rs:66-75: download_with_resume(..).await?
DownloadWithResume(p, outcome) ==
    /\ InstallFrame
    /\ pc[p] = "download"
    /\ info' = [info EXCEPT ![p].downloaded = TRUE]
    /\ IF outcome = "ok"
       THEN /\ pc' = [pc EXCEPT ![p] = "extract"]
            /\ UNCHANGED result
       ELSE Finish(p, Err(outcome))
    /\ UNCHANGED <<queueFile, call, memQueue, registered, queueAtCall>>

\* Plausible bug: a failed extraction retires the queue entry.
ExtractAndLocateDropsEntry(p, outcome) ==
    /\ InstallFrame
    /\ pc[p] = "extract"
    /\ outcome \in ExtractOutcomes(info[p].suffix)
    /\ IF outcome = "ok"
       THEN /\ pc' = [pc EXCEPT ![p] = "validate"]
            /\ UNCHANGED <<result, queueFile, memQueue>>
       ELSE /\ Finish(p, Err(outcome))
            /\ memQueue' = [memQueue EXCEPT ![p] =
                              QueueRemove(memQueue[p], call[p].major, CallKeyString(p))]
            /\ queueFile' = QueueFileAfterSave(queueFile, memQueue'[p], "ok")
    /\ UNCHANGED <<call, info, registered, queueAtCall>>

\* install.rs:77-120: emit Extracting, replace version_dir, extract by
\* suffix, remove the archive, locate and canonicalize the java executable.
ExtractAndLocate(p, outcome) ==
    /\ InstallFrame
    /\ pc[p] = "extract"
    /\ outcome \in ExtractOutcomes(info[p].suffix)
    /\ IF outcome = "ok"
       THEN /\ pc' = [pc EXCEPT ![p] = "validate"]
            /\ UNCHANGED result
       ELSE Finish(p, Err(outcome))
    /\ UNCHANGED <<queueFile, call, info, memQueue, registered, queueAtCall>>

\* install.rs:122-124: check_java_installation returns None.
ValidateErr(p) ==
    /\ InstallFrame
    /\ pc[p] = "validate"
    /\ Finish(p, Err("validation"))
    /\ UNCHANGED <<queueFile, call, info, memQueue, registered, queueAtCall>>

\* Plausible bug: the entry is not retired on success.
ValidateOkKeepsEntry(p, outcome) ==
    /\ InstallFrame
    /\ pc[p] = "validate"
    /\ queueFile' = QueueFileAfterSave(queueFile, memQueue[p], outcome)
    /\ Finish(p, IF outcome = "ok" THEN Ok ELSE Err("queue_save_final"))
    /\ UNCHANGED <<call, info, memQueue, registered, queueAtCall>>

\* install.rs:122-142: the installation validates; queue.remove(key),
\* queue.save(..)?, emit Completed, return Ok(installation).
ValidateOk(p, outcome) ==
    /\ InstallFrame
    /\ pc[p] = "validate"
    /\ LET q == QueueRemove(memQueue[p], call[p].major, CallKeyString(p))
       IN /\ memQueue' = [memQueue EXCEPT ![p] = q]
          /\ queueFile' = QueueFileAfterSave(queueFile, q, outcome)
    /\ Finish(p, IF outcome = "ok" THEN Ok ELSE Err("queue_save_final"))
    /\ UNCHANGED <<call, info, registered, queueAtCall>>

\* The caller takes the result; the slot is free for the next call.
InstallReturn(p) ==
    /\ InstallFrame
    /\ pc[p] = "done"
    /\ pc' = [pc EXCEPT ![p] = "idle"]
    /\ call' = [call EXCEPT ![p] = NoCall]
    /\ info' = [info EXCEPT ![p] = NoInfo]
    /\ memQueue' = [memQueue EXCEPT ![p] = <<>>]
    /\ result' = [result EXCEPT ![p] = NoResult]
    /\ registered' = [registered EXCEPT ![p] = FALSE]
    /\ queueAtCall' = [queueAtCall EXCEPT ![p] = EmptyFile]
    /\ UNCHANGED queueFile

\* clear_pending_download (mod.rs:383-389): DownloadQueue::remove_pending,
\* that is load, remove(key), save.
ClearPendingDownload(major, image_type, outcome) ==
    /\ InstallFrame
    /\ AllIdle
    /\ queueFile' = QueueFileAfterSave(
                        queueFile,
                        QueueRemove(QueueLoad(queueFile), major, ImageTypeToString(image_type)),
                        outcome)
    /\ UNCHANGED <<pc, call, info, memQueue, result, registered, queueAtCall>>

InstallNext ==
    \/ \E p \in Procs, m \in Majors, t \in ImageTypes, b \in InstallPaths :
          InstallStart(p, m, t, b)
    \/ \E p \in Procs : FetchReleaseErr(p)
    \/ \E p \in Procs, s \in Suffixes, c \in BOOLEAN, d \in BOOLEAN :
          FetchReleaseOk(p, s, c, d)
    \/ \E p \in Procs, o \in SaveOutcomes : RegisterPending(p, o)
    \/ \E p \in Procs, e \in BOOLEAN, r \in BOOLEAN, m \in BOOLEAN :
          CheckArchive(p, e, r, m)
    \/ \E p \in Procs, o \in DownloadOutcomes : DownloadWithResume(p, o)
    \/ \E p \in Procs, o \in ExtractOutcomes("zip") \cup ExtractOutcomes("other") :
          ExtractAndLocate(p, o)
    \/ \E p \in Procs : ValidateErr(p)
    \/ \E p \in Procs, o \in SaveOutcomes : ValidateOk(p, o)
    \/ \E p \in Procs : InstallReturn(p)
    \/ \E m \in Majors, t \in ImageTypes, o \in SaveOutcomes :
          ClearPendingDownload(m, t, o)

-----------------------------------------------------------------------------
\* Catalog retry loops: fetch_available_releases_with_retry and
\* fetch_adoptium_assets_with_retry.

\* const CATALOG_REQUEST_RETRIES (production build).
CATALOG_REQUEST_RETRIES == 3

\* const CATALOG_RETRY_BASE_DELAY_MS (production build).
CATALOG_RETRY_BASE_DELAY_MS == 300

\* What the server does with one request: a success status with a body that
\* parses to `value`, a success status with a body that does not parse, a
\* non-success status, or a transport error (a timeout included).
RespOk(value) == [kind |-> "ok", value |-> value]
RespBadBody == [kind |-> "bad_body", value |-> <<>>]
RespStatusErr == [kind |-> "status_err", value |-> <<>>]
RespTransportErr == [kind |-> "transport_err", value |-> <<>>]

IsSuccessStatus(r) == r.kind \in {"ok", "bad_body"}

\* 1_u64 << attempt
Shl1(attempt) == 2 ^ attempt

\* Plausible bug: the delay grows by the base at every attempt.
BackoffLinear(attempt) == CATALOG_RETRY_BASE_DELAY_MS * (attempt + 1)

\* adoptium.rs:141, 179: CATALOG_RETRY_BASE_DELAY_MS * (1_u64 << attempt)
Backoff(attempt) == CATALOG_RETRY_BASE_DELAY_MS * Shl1(attempt)

LoopOut(res, value, hits, sleeps) ==
    [result |-> res, value |-> value, hits |-> hits, sleeps |-> sleeps]

\* Plausible bug: a body that does not parse is retried like a failed request.
RECURSIVE ReleasesLoopRetriesParse(_, _, _)
ReleasesLoopRetriesParse(script, attempt, sleeps) ==
    IF attempt > CATALOG_REQUEST_RETRIES
    THEN LoopOut("NetworkError", <<>>, attempt, sleeps)
    ELSE LET resp == script[attempt + 1]
         IN IF resp.kind = "ok"
            THEN LoopOut("Ok", resp.value, attempt + 1, sleeps)
            ELSE IF attempt = CATALOG_REQUEST_RETRIES
                 THEN LoopOut(IF resp.kind = "bad_body" THEN "SerializationError"
                              ELSE "NetworkError", <<>>, attempt + 1, sleeps)
                 ELSE ReleasesLoopRetriesParse(script, attempt + 1,
                                               Append(sleeps, Backoff(attempt)))

\* Plausible bug: the loop runs 0..CATALOG_REQUEST_RETRIES exclusive.
RECURSIVE ReleasesLoopOneShort(_, _, _)
ReleasesLoopOneShort(script, attempt, sleeps) ==
    IF attempt > CATALOG_REQUEST_RETRIES - 1
    THEN LoopOut("NetworkError", <<>>, attempt, sleeps)
    ELSE LET resp == script[attempt + 1]
         IN IF IsSuccessStatus(resp)
            THEN LoopOut(IF resp.kind = "ok" THEN "Ok" ELSE "SerializationError",
                         resp.value, attempt + 1, sleeps)
            ELSE IF attempt = CATALOG_REQUEST_RETRIES - 1
                 THEN LoopOut("NetworkError", <<>>, attempt + 1, sleeps)
                 ELSE ReleasesLoopOneShort(script, attempt + 1,
                                           Append(sleeps, Backoff(attempt)))

\* adoptium.rs:106-147: the iteration `attempt` of
\* for attempt in 0..=CATALOG_REQUEST_RETRIES, and the ones after it.
RECURSIVE ReleasesLoop(_, _, _)
ReleasesLoop(script, attempt, sleeps) ==
    IF attempt > CATALOG_REQUEST_RETRIES
    THEN LoopOut("NetworkError", <<>>, attempt, sleeps)
    ELSE LET resp == script[attempt + 1]
         IN IF IsSuccessStatus(resp)
            THEN LoopOut(IF resp.kind = "ok" THEN "Ok" ELSE "SerializationError",
                         resp.value, attempt + 1, sleeps)
            ELSE IF attempt = CATALOG_REQUEST_RETRIES
                 THEN LoopOut("NetworkError", <<>>, attempt + 1, sleeps)
                 ELSE ReleasesLoop(script, attempt + 1,
                                   Append(sleeps, Backoff(attempt)))

\* fetch_available_releases_with_retry(client, releases_url).
FetchAvailableReleasesWithRetry(script) == ReleasesLoop(script, 0, <<>>)

\* adoptium.rs:156-184: the iteration `attempt` of the assets loop, and the
\* ones after it. The error is last_error: the status or the transport error
\* of the last request, or the parse error.
RECURSIVE AssetsLoop(_, _, _, _)
AssetsLoop(script, attempt, sleeps, last_error) ==
    IF attempt > CATALOG_REQUEST_RETRIES
    THEN LoopOut(last_error, <<>>, attempt, sleeps)
    ELSE LET resp == script[attempt + 1]
         IN IF IsSuccessStatus(resp)
            THEN LoopOut(IF resp.kind = "ok" THEN "Ok" ELSE "ParseError",
                         resp.value, attempt + 1, sleeps)
            ELSE AssetsLoop(script, attempt + 1,
                            IF attempt < CATALOG_REQUEST_RETRIES
                            THEN Append(sleeps, Backoff(attempt)) ELSE sleeps,
                            IF resp.kind = "status_err" THEN "HttpStatus"
                            ELSE "TransportError")

\* fetch_adoptium_assets_with_retry(client, url).
FetchAdoptiumAssetsWithRetry(script) == AssetsLoop(script, 0, <<>>, "unknown error")

\* The answers a server can give to the requests of one call.
ReleaseListsOfScripts == {<<17>>}
AssetListsOfScripts == {<<>>, <<"a1", "a2">>}

ReleaseResponses ==
    {RespOk(v) : v \in ReleaseListsOfScripts}
        \cup {RespBadBody, RespStatusErr, RespTransportErr}

AssetResponses ==
    {RespOk(v) : v \in AssetListsOfScripts}
        \cup {RespBadBody, RespStatusErr, RespTransportErr}

Attempts == 1..(CATALOG_REQUEST_RETRIES + 1)

NoLoopOut == [result |-> "none", value |-> <<>>, hits |-> 0, sleeps |-> <<>>]

\* What the retry loops never touch.
RetryFrame == UNCHANGED <<installVars, catalogVars, writerVars, extractVars, downloadVars, versionVars, resolveVars, classifyVars, checksumVars, configVars, pendingVars, stepVars, updateVars>>

RetryInit ==
    /\ retryOut = NoLoopOut
    /\ \/ retryFn = "releases" /\ retryScript \in [Attempts -> ReleaseResponses]
       \/ retryFn = "assets" /\ retryScript \in [Attempts -> AssetResponses]

\* One call of fetch_available_releases_with_retry against the server.
CallFetchAvailableReleases ==
    /\ RetryFrame
    /\ retryFn = "releases"
    /\ retryOut = NoLoopOut
    /\ retryOut' = FetchAvailableReleasesWithRetry(retryScript)
    /\ UNCHANGED <<retryFn, retryScript>>

\* One call of fetch_adoptium_assets_with_retry against the server.
CallFetchAdoptiumAssets ==
    /\ RetryFrame
    /\ retryFn = "assets"
    /\ retryOut = NoLoopOut
    /\ retryOut' = FetchAdoptiumAssetsWithRetry(retryScript)
    /\ UNCHANGED <<retryFn, retryScript>>

RetryIdle ==
    /\ retryFn = "none"
    /\ retryScript = <<>>
    /\ retryOut = NoLoopOut

RetryNext ==
    \/ CallFetchAvailableReleases
    \/ CallFetchAdoptiumAssets

-----------------------------------------------------------------------------
\* Atomic file writer (write_file_atomic of cache.rs and persistence.rs).

\* The steps of write_file_atomic that can return an error.
WriteFailures == {"none", "create_dir_all", "write", "rename"}

\* write_file_atomic(path, content) as a whole: `file` is the file at path
\* before the call, failAt the step that fails, removeOk whether
\* remove_file(path) removed the file (its error is discarded).
WriteFileAtomic(file, absent, content, failAt, removeOk) ==
    IF failAt \in {"create_dir_all", "write"}
    THEN [ok |-> FALSE, file |-> file]
    ELSE LET afterRemove == IF file.present /\ removeOk THEN absent ELSE file
         IN IF failAt = "rename"
            THEN [ok |-> FALSE, file |-> afterRemove]
            ELSE [ok |-> TRUE, file |-> content]

-----------------------------------------------------------------------------
\* TTL cache of the catalog (cache.rs).

\* const CACHE_DURATION_SECS: u64 = 24 * 60 * 60.
CACHE_DURATION_SECS == 86400

\* The instants the clock is read at: a base instant, and the instants one
\* second around one cache duration later.
Times == {0, 1, CACHE_DURATION_SECS - 1, CACHE_DURATION_SECS, CACHE_DURATION_SECS + 1}

\* JavaCatalog (lts_versions and the is_lts flags are carried along and not
\* modelled).
JavaCatalog(releases, available, cached_at) ==
    [releases |-> releases, available_major_versions |-> available,
     cached_at |-> cached_at]

EmptyCatalog == JavaCatalog(<<>>, <<>>, 0)

\* The cache file: missing, the text serde_json::to_string_pretty wrote for a
\* catalog, or a text that does not parse as a JavaCatalog.
CacheAbsent == [present |-> FALSE, parses |-> FALSE, catalog |-> EmptyCatalog]
CacheText(catalog) == [present |-> TRUE, parses |-> TRUE, catalog |-> catalog]
CacheGarbage == [present |-> TRUE, parses |-> FALSE, catalog |-> EmptyCatalog]

LoadOut(kind, catalog) == [kind |-> kind, catalog |-> catalog]

\* Plausible bug: the comparison is <= instead of <.
AgeIsFreshInclusive(age) == age <= CACHE_DURATION_SECS

\* cache.rs:49: now - catalog.cached_at < CACHE_DURATION_SECS, for
\* cached_at <= now.
AgeIsFresh(age) == age < CACHE_DURATION_SECS

\* load_cached_catalog_result (cache.rs:33-54). readOk: read_to_string
\* succeeds. With cached_at > now the u64 subtraction underflows: a build
\* with overflow checks panics, a build without wraps to
\* 2^64 - (cached_at - now), which is not below CACHE_DURATION_SECS.
LoadCachedCatalogResult(file, t, readOk, overflowChecks) ==
    IF ~file.present THEN LoadOut("None", EmptyCatalog)
    ELSE IF ~readOk THEN LoadOut("Err", EmptyCatalog)
    ELSE IF ~file.parses THEN LoadOut("Err", EmptyCatalog)
    ELSE IF file.catalog.cached_at > t
         THEN IF overflowChecks THEN LoadOut("Panic", EmptyCatalog)
              ELSE LoadOut("None", EmptyCatalog)
    ELSE IF AgeIsFresh(t - file.catalog.cached_at)
         THEN LoadOut("Some", file.catalog)
         ELSE LoadOut("None", EmptyCatalog)

\* save_catalog_cache (cache.rs:64-68).
SaveCatalogCache(file, catalog, failAt, removeOk) ==
    WriteFileAtomic(file, CacheAbsent, CacheText(catalog), failAt, removeOk)

-----------------------------------------------------------------------------
\* Catalog client: AdoptiumProvider::fetch_catalog.

\* const CATALOG_MAX_CONCURRENT_REQUESTS.
CATALOG_MAX_CONCURRENT_REQUESTS == 6

\* The assets a server answers with: semver, package size and link.
AssetSemver(a) == IF a = "a1" THEN "17.0.9+9" ELSE "17.0.8+7"
AssetSize(a) == IF a = "a1" THEN 100 ELSE 200
AssetLink(a) == IF a = "a1" THEN "https://host/a1" ELSE "https://host/a2"

\* adoptium.rs:233-245: the JavaReleaseInfo of an asset. A version is the
\* sequence of the pieces of its text.
ReleaseFromAsset(major, image_type, asset) ==
    [major_version |-> major, image_type |-> image_type,
     version |-> <<AssetSemver(asset)>>, file_size |-> AssetSize(asset),
     download_url |-> AssetLink(asset), is_available |-> TRUE]

\* adoptium.rs:256-268: the fallback, version format!("{}.x", major_version).
FallbackRelease(major, image_type) ==
    [major_version |-> major, image_type |-> image_type,
     version |-> <<major, ".x">>, file_size |-> 0,
     download_url |-> "", is_available |-> FALSE]

NoQuery == [result |-> "none", value |-> <<>>]
NoRelease == FallbackRelease(0, "Jre")

\* Plausible bug: the last asset of the response is taken.
TaskReleaseLastAsset(major, image_type, query) ==
    IF query.result = "Ok" /\ Len(query.value) > 0
    THEN ReleaseFromAsset(major, image_type, query.value[Len(query.value)])
    ELSE FallbackRelease(major, image_type)

\* adoptium.rs:230-268: what one asset query task returns.
TaskRelease(major, image_type, query) ==
    IF query.result = "Ok" /\ Len(query.value) > 0
    THEN ReleaseFromAsset(major, image_type, Head(query.value))
    ELSE FallbackRelease(major, image_type)

\* adoptium.rs:214-272: one task per major of available_releases and image
\* type of [Jre, Jdk], in that order.
SpawnTasks(available) ==
    [k \in 1..(2 * Len(available)) |->
        [major |-> available[(k + 1) \div 2],
         image_type |-> IF k % 2 = 1 THEN "Jre" ELSE "Jdk",
         st |-> "spawned", query |-> NoQuery, release |-> NoRelease]]

\* adoptium.rs:275-291: the releases of the tasks, in task order.
CollectReleases(tasks) == [k \in 1..Len(tasks) |-> tasks[k].release]

NoLoad == LoadOut("not_called", EmptyCatalog)
NoCatalogResult == [status |-> "none", err |-> "none", catalog |-> EmptyCatalog]
CatalogOk(catalog) == [status |-> "ok", err |-> "none", catalog |-> catalog]
CatalogErr(kind) == [status |-> "err", err |-> kind, catalog |-> EmptyCatalog]
CatalogPanic == [status |-> "panic", err |-> "none", catalog |-> EmptyCatalog]

\* What the catalog client never touches.
CatalogFrame == UNCHANGED <<installVars, retryVars, writerVars, extractVars, downloadVars, versionVars, resolveVars, classifyVars, checksumVars, configVars, pendingVars, stepVars, updateVars>>

CatalogIdle ==
    /\ fcPc = "idle"
    /\ fcForce = FALSE
    /\ fcLoad = NoLoad
    /\ cacheAtCall = CacheAbsent
    /\ fcRel = NoLoopOut
    /\ fcTasks = <<>>
    /\ permits = CATALOG_MAX_CONCURRENT_REQUESTS
    /\ fcSave = "none"
    /\ fcResult = NoCatalogResult

CatalogInit ==
    /\ now = 0
    /\ cacheFile = CacheAbsent
    /\ CatalogIdle

\* adoptium.rs:188-205: the call begins; without force_refresh the cache is
\* read, a fresh catalog is returned, None and Err go on to the network.
FetchCatalogStart(force, readOk, overflowChecks) ==
    /\ CatalogFrame
    /\ fcPc = "idle"
    /\ fcForce' = force
    /\ cacheAtCall' = cacheFile
    /\ fcLoad' = IF force THEN NoLoad
                 ELSE LoadCachedCatalogResult(cacheFile, now, readOk, overflowChecks)
    /\ IF fcLoad'.kind = "Some"
       THEN fcPc' = "done" /\ fcResult' = CatalogOk(fcLoad'.catalog)
       ELSE IF fcLoad'.kind = "Panic"
            THEN fcPc' = "done" /\ fcResult' = CatalogPanic
            ELSE fcPc' = "releases" /\ UNCHANGED fcResult
    /\ UNCHANGED <<now, cacheFile, fcRel, fcTasks, permits, fcSave>>

\* adoptium.rs:207-272: the available releases are fetched with retry; an
\* error is returned, a list spawns its asset query tasks.
FetchReleases(script) ==
    /\ CatalogFrame
    /\ fcPc = "releases"
    /\ fcRel' = FetchAvailableReleasesWithRetry(script)
    /\ IF fcRel'.result = "Ok"
       THEN /\ fcPc' = "assets"
            /\ fcTasks' = SpawnTasks(fcRel'.value)
            /\ UNCHANGED fcResult
       ELSE /\ fcPc' = "done"
            /\ fcResult' = CatalogErr(fcRel'.result)
            /\ UNCHANGED fcTasks
    /\ UNCHANGED <<now, cacheFile, fcForce, fcLoad, cacheAtCall, permits, fcSave>>

\* Plausible bug: the query starts without waiting for a permit.
AssetTaskAcquireNoWait(k) ==
    /\ CatalogFrame
    /\ fcPc = "assets"
    /\ k \in 1..Len(fcTasks)
    /\ fcTasks[k].st = "spawned"
    /\ permits' = permits - 1
    /\ fcTasks' = [fcTasks EXCEPT ![k].st = "running"]
    /\ UNCHANGED <<now, cacheFile, fcPc, fcForce, fcLoad, cacheAtCall, fcRel, fcSave, fcResult>>

\* adoptium.rs:228: semaphore.acquire_owned().await
AssetTaskAcquire(k) ==
    /\ CatalogFrame
    /\ fcPc = "assets"
    /\ k \in 1..Len(fcTasks)
    /\ fcTasks[k].st = "spawned"
    /\ permits > 0
    /\ permits' = permits - 1
    /\ fcTasks' = [fcTasks EXCEPT ![k].st = "running"]
    /\ UNCHANGED <<now, cacheFile, fcPc, fcForce, fcLoad, cacheAtCall, fcRel, fcSave, fcResult>>

\* adoptium.rs:230-269: the query with retry, the release it yields, and the
\* permit given back as the task ends.
AssetTaskQuery(k, script) ==
    /\ CatalogFrame
    /\ fcPc = "assets"
    /\ k \in 1..Len(fcTasks)
    /\ fcTasks[k].st = "running"
    /\ LET out == FetchAdoptiumAssetsWithRetry(script)
           query == [result |-> out.result, value |-> out.value]
       IN fcTasks' = [fcTasks EXCEPT
              ![k].st = "done",
              ![k].query = query,
              ![k].release = TaskRelease(fcTasks[k].major, fcTasks[k].image_type, query)]
    /\ permits' = permits + 1
    /\ UNCHANGED <<now, cacheFile, fcPc, fcForce, fcLoad, cacheAtCall, fcRel, fcSave, fcResult>>

AllTasksDone == \A k \in 1..Len(fcTasks) : fcTasks[k].st = "done"

\* Plausible bug: save_catalog_cache(..)? returns its error to the caller.
FetchCatalogCollectPropagates(failAt, removeOk) ==
    /\ CatalogFrame
    /\ fcPc = "assets"
    /\ AllTasksDone
    /\ LET catalog == JavaCatalog(CollectReleases(fcTasks), fcRel.value, now)
           saved == SaveCatalogCache(cacheFile, catalog, failAt, removeOk)
       IN /\ cacheFile' = saved.file
          /\ fcSave' = IF saved.ok THEN "ok" ELSE "err"
          /\ fcResult' = IF saved.ok THEN CatalogOk(catalog) ELSE CatalogErr("IoError")
    /\ fcPc' = "done"
    /\ UNCHANGED <<now, fcForce, fcLoad, cacheAtCall, fcRel, fcTasks, permits>>

\* adoptium.rs:275-307: the tasks are joined in order, the catalog is stamped
\* with the clock and saved (the result of the save is discarded), and
\* returned.
FetchCatalogCollect(failAt, removeOk) ==
    /\ CatalogFrame
    /\ fcPc = "assets"
    /\ AllTasksDone
    /\ LET catalog == JavaCatalog(CollectReleases(fcTasks), fcRel.value, now)
           saved == SaveCatalogCache(cacheFile, catalog, failAt, removeOk)
       IN /\ cacheFile' = saved.file
          /\ fcSave' = IF saved.ok THEN "ok" ELSE "err"
          /\ fcResult' = CatalogOk(catalog)
    /\ fcPc' = "done"
    /\ UNCHANGED <<now, fcForce, fcLoad, cacheAtCall, fcRel, fcTasks, permits>>

\* The caller takes the result.
FetchCatalogReturn ==
    /\ CatalogFrame
    /\ fcPc = "done"
    /\ fcPc' = "idle"
    /\ fcForce' = FALSE
    /\ fcLoad' = NoLoad
    /\ cacheAtCall' = CacheAbsent
    /\ fcRel' = NoLoopOut
    /\ fcTasks' = <<>>
    /\ fcSave' = "none"
    /\ fcResult' = NoCatalogResult
    /\ UNCHANGED <<now, cacheFile, permits>>

\* The clock moves on while no call runs.
ClockAdvance(t) ==
    /\ CatalogFrame
    /\ fcPc = "idle"
    /\ t > now
    /\ now' = t
    /\ UNCHANGED <<cacheFile, fcPc, fcForce, fcLoad, cacheAtCall, fcRel, fcTasks,
                   permits, fcSave, fcResult>>

\* The system clock is set back (SystemTime is not monotonic).
ClockStepBack(t) ==
    /\ CatalogFrame
    /\ fcPc = "idle"
    /\ t < now
    /\ now' = t
    /\ UNCHANGED <<cacheFile, fcPc, fcForce, fcLoad, cacheAtCall, fcRel, fcTasks,
                   permits, fcSave, fcResult>>

\* The cache file is damaged from outside: its text no longer parses.
CacheDamaged ==
    /\ CatalogFrame
    /\ fcPc = "idle"
    /\ cacheFile # CacheGarbage
    /\ cacheFile' = CacheGarbage
    /\ UNCHANGED <<now, fcPc, fcForce, fcLoad, cacheAtCall, fcRel, fcTasks,
                   permits, fcSave, fcResult>>

\* clear_catalog_cache (cache.rs:71-77).
ClearCatalogCache ==
    /\ CatalogFrame
    /\ fcPc = "idle"
    /\ cacheFile.present
    /\ cacheFile' = CacheAbsent
    /\ UNCHANGED <<now, fcPc, fcForce, fcLoad, cacheAtCall, fcRel, fcTasks,
                   permits, fcSave, fcResult>>

\* Most asset query tasks one call spawns: two image types for each major of
\* the longest list of available releases.
MaxTasks == 4
TaskSlots == 1..MaxTasks

\* The save outcomes in which the cache file is not replaced.
FailedWrites == WriteFailures \ {"none"}

\* The server scripts of a call: k failed requests of one kind, then the
\* answer r to every later request; or failures throughout.
ScriptsOver(answers) ==
    {[i \in Attempts |-> IF i <= k THEN f ELSE r] :
        k \in 0..(CATALOG_REQUEST_RETRIES + 1),
        f \in {RespStatusErr, RespTransportErr},
        r \in answers}

AssetScripts == ScriptsOver({RespOk(v) : v \in AssetListsOfScripts} \cup {RespBadBody})

\* Available-release lists the server answers with.
ShortReleaseLists == {<<>>, <<17>>}
LongReleaseLists == {<<>>, <<17>>, <<21, 17>>}

ReleaseScripts(lists) == ScriptsOver({RespOk(v) : v \in lists} \cup {RespBadBody})

\* fetch_catalog with its cache and the clock, against a server with at most
\* one available release.
CatalogNext ==
    \/ \E f \in BOOLEAN, r \in BOOLEAN, o \in BOOLEAN : FetchCatalogStart(f, r, o)
    \/ \E sc \in ReleaseScripts(ShortReleaseLists) : FetchReleases(sc)
    \/ \E k \in TaskSlots : AssetTaskAcquire(k)
    \/ \E k \in TaskSlots, sc \in AssetScripts : AssetTaskQuery(k, sc)
    \/ \E fa \in WriteFailures, ro \in BOOLEAN : FetchCatalogCollect(fa, ro)
    \/ FetchCatalogReturn
    \/ \E t \in Times : ClockAdvance(t)
    \/ \E t \in Times : ClockStepBack(t)
    \/ CacheDamaged
    \/ ClearCatalogCache

\* fetch_catalog against a server with up to two available releases, the
\* clock standing still and the cache directory refusing every write.
AssetsNext ==
    \/ \E f \in BOOLEAN, r \in BOOLEAN, o \in BOOLEAN : FetchCatalogStart(f, r, o)
    \/ \E sc \in ReleaseScripts(LongReleaseLists) : FetchReleases(sc)
    \/ \E k \in TaskSlots : AssetTaskAcquire(k)
    \/ \E k \in TaskSlots, sc \in AssetScripts : AssetTaskQuery(k, sc)
    \/ \E fa \in FailedWrites, ro \in BOOLEAN : FetchCatalogCollect(fa, ro)
    \/ FetchCatalogReturn

-----------------------------------------------------------------------------
\* write_file_atomic step by step, with a crash of the process at any step.

\* The contents written, told apart by a number.
NumContents == 2
Contents == 1..NumContents

NoFile == [exists |-> FALSE, data |-> 0, complete |-> TRUE]
\* A file holding all of content d, or only a part of it.
File(d, complete) == [exists |-> TRUE, data |-> d, complete |-> complete]

WriterFrame == UNCHANGED <<installVars, retryVars, catalogVars, extractVars, downloadVars, versionVars, resolveVars, classifyVars, checksumVars, configVars, pendingVars, stepVars, updateVars>>

WriterInit ==
    /\ fsPath = NoFile
    /\ fsTmp = NoFile
    /\ wPc = "idle"
    /\ wContent = 0
    /\ wOld = NoFile
    /\ wResult = "none"

\* The call returns Err from the step it is at.
WriteFails ==
    /\ wPc' = "done"
    /\ wResult' = "Err"

\* write_file_atomic(path, content) is called.
WriteStart(content) ==
    /\ WriterFrame
    /\ wPc = "idle"
    /\ wPc' = "create_dir_all"
    /\ wContent' = content
    /\ wOld' = fsPath
    /\ wResult' = "none"
    /\ UNCHANGED <<fsPath, fsTmp>>

\* std::fs::create_dir_all(parent)?
CreateDirAll(ok) ==
    /\ WriterFrame
    /\ wPc = "create_dir_all"
    /\ IF ok THEN wPc' = "open_tmp" /\ UNCHANGED wResult ELSE WriteFails
    /\ UNCHANGED <<fsPath, fsTmp, wContent, wOld>>

\* std::fs::write(&tmp_path, content)?, first half: the temporary file is
\* created or truncated.
OpenTmp(ok) ==
    /\ WriterFrame
    /\ wPc = "open_tmp"
    /\ IF ok
       THEN /\ fsTmp' = File(wContent, FALSE)
            /\ wPc' = "write_tmp"
            /\ UNCHANGED wResult
       ELSE /\ WriteFails
            /\ UNCHANGED fsTmp
    /\ UNCHANGED <<fsPath, wContent, wOld>>

\* Plausible bug: the result of the write is discarded and the call goes on.
WriteTmpIgnoresError(ok) ==
    /\ WriterFrame
    /\ wPc = "write_tmp"
    /\ fsTmp' = IF ok THEN File(wContent, TRUE) ELSE fsTmp
    /\ wPc' = "remove_old"
    /\ UNCHANGED <<fsPath, wContent, wOld, wResult>>

\* std::fs::write(&tmp_path, content)?, second half: all of content is
\* written, or the write fails with a part of it in the temporary file.
WriteTmp(ok) ==
    /\ WriterFrame
    /\ wPc = "write_tmp"
    /\ IF ok
       THEN /\ fsTmp' = File(wContent, TRUE)
            /\ wPc' = "remove_old"
            /\ UNCHANGED wResult
       ELSE /\ WriteFails
            /\ UNCHANGED fsTmp
    /\ UNCHANGED <<fsPath, wContent, wOld>>

\* if path.exists() { let _ = std::fs::remove_file(path); }
RemoveOld(removeOk) ==
    /\ WriterFrame
    /\ wPc = "remove_old"
    /\ fsPath' = IF fsPath.exists /\ removeOk THEN NoFile ELSE fsPath
    /\ wPc' = "rename"
    /\ UNCHANGED <<fsTmp, wContent, wOld, wResult>>

\* std::fs::rename(&tmp_path, path)?; Ok(())
RenameTmp(ok) ==
    /\ WriterFrame
    /\ wPc = "rename"
    /\ IF ok
       THEN /\ fsPath' = fsTmp
            /\ fsTmp' = NoFile
            /\ wPc' = "done"
            /\ wResult' = "Ok"
       ELSE /\ WriteFails
            /\ UNCHANGED <<fsPath, fsTmp>>
    /\ UNCHANGED <<wContent, wOld>>

\* The process dies inside the call; the files stay as they are.
WriterCrash ==
    /\ WriterFrame
    /\ wPc \notin {"idle", "done", "crashed"}
    /\ wPc' = "crashed"
    /\ wResult' = "none"
    /\ UNCHANGED <<fsPath, fsTmp, wContent, wOld>>

\* The caller takes the result, or the application is started again.
WriteReturn ==
    /\ WriterFrame
    /\ wPc \in {"done", "crashed"}
    /\ wPc' = "idle"
    /\ wContent' = 0
    /\ wOld' = NoFile
    /\ wResult' = "none"
    /\ UNCHANGED <<fsPath, fsTmp>>

WriterNext ==
    \/ \E c \in Contents : WriteStart(c)
    \/ \E ok \in BOOLEAN : CreateDirAll(ok)
    \/ \E ok \in BOOLEAN : OpenTmp(ok)
    \/ \E ok \in BOOLEAN : WriteTmp(ok)
    \/ \E ok \in BOOLEAN : RemoveOld(ok)
    \/ \E ok \in BOOLEAN : RenameTmp(ok)
    \/ WriterCrash
    \/ WriteReturn

-----------------------------------------------------------------------------
\* Archive extraction (utils/zip.rs). A path is the sequence of its
\* std::path components; extract_to is the root the paths are joined to.

\* Most entries read from one archive, and most components of an entry path.
MaxEntries == 3
MaxDepth == 3

\* Component::Normal names, Component::CurDir, Component::ParentDir and
\* Component::RootDir.
NormalNames == {"a", "META-INF"}
CurDir == "."
ParentDir == ".."
RootDir == "/"
Components == NormalNames \cup {CurDir, ParentDir, RootDir}

\* Entry paths as Path::components() yields them: a root only in front.
EntryPaths ==
    UNION {{q \in [1..n -> Components] : \A i \in 2..n : q[i] # RootDir} : n \in 0..MaxDepth}

\* sanitize_relative_path (zip.rs:6-29), from component i on.
RECURSIVE SanitizeFrom(_, _, _)
SanitizeFrom(entry_path, i, safe_path) ==
    IF i > Len(entry_path) THEN [ok |-> TRUE, path |-> safe_path, err |-> "none"]
    ELSE IF entry_path[i] \in NormalNames
         THEN SanitizeFrom(entry_path, i + 1, Append(safe_path, entry_path[i]))
    ELSE IF entry_path[i] = CurDir
         THEN SanitizeFrom(entry_path, i + 1, safe_path)
    ELSE IF entry_path[i] = ParentDir
         THEN [ok |-> FALSE, path |-> <<>>, err |-> "parent traversal"]
         ELSE [ok |-> FALSE, path |-> <<>>, err |-> "absolute path"]

SanitizeRelativePath(entry_path) == SanitizeFrom(entry_path, 1, <<>>)

\* The depth bookkeeping of ZipFile::enclosed_name of the zip crate: -1 once
\* the path has a root or climbs above its start.
RECURSIVE EnclosedDepth(_, _, _)
EnclosedDepth(name, i, depth) ==
    IF i > Len(name) THEN depth
    ELSE IF name[i] = RootDir THEN -1
    ELSE IF name[i] = ParentDir
         THEN IF depth = 0 THEN -1 ELSE EnclosedDepth(name, i + 1, depth - 1)
    ELSE IF name[i] = CurDir THEN EnclosedDepth(name, i + 1, depth)
         ELSE EnclosedDepth(name, i + 1, depth + 1)

\* file.enclosed_name() (zip.rs:41): None for a name that is absolute or
\* resolves outside its start, otherwise the name as it stands ("a/../b" is
\* returned unchanged).
EnclosedName(name) ==
    IF EnclosedDepth(name, 1, 0) < 0
    THEN [some |-> FALSE, path |-> <<>>]
    ELSE [some |-> TRUE, path |-> name]

\* outpath.parent()
ParentOf(path) == SubSeq(path, 1, Len(path) - 1)

\* The steps of writing one entry that can fail.
EntryFailures == {"none", "read_entry", "create_dir_all", "create", "copy"}

\* zip.rs:114-141 and zip.rs:51-63: the paths one entry creates under
\* extract_to, with the step failAt failing.
PathsCreated(outpath, is_dir, parentExists, failAt) ==
    IF is_dir
    THEN IF failAt = "create_dir_all" THEN {} ELSE {outpath}
    ELSE LET made == IF parentExists \/ Len(outpath) = 0 THEN {} ELSE {ParentOf(outpath)}
         IN IF ~parentExists /\ failAt = "create_dir_all" THEN {}
            ELSE IF failAt = "create" THEN made
            ELSE made \cup {outpath}

\* Whether writing the entry returns an error.
EntryFails(is_dir, parentExists, failAt) ==
    IF is_dir THEN failAt = "create_dir_all"
    ELSE \/ ~parentExists /\ failAt = "create_dir_all"
         \/ failAt \in {"create", "copy"}

ExOk == [status |-> "ok", err |-> "none"]
ExErr(kind) == [status |-> "err", err |-> kind]
ExNone == [status |-> "none", err |-> "none"]

ExtractFrame == UNCHANGED <<installVars, retryVars, catalogVars, writerVars, downloadVars, versionVars, resolveVars, classifyVars, checksumVars, configVars, pendingVars, stepVars, updateVars>>

ExtractIdle ==
    /\ exPc = "idle"
    /\ exKind = "none"
    /\ exCount = 0
    /\ exLast = {}
    /\ exTop = <<>>
    /\ exUnsafe = FALSE
    /\ exResult = ExNone

\* The archive is opened (zip.rs:32-35, 74-89).
ExtractStart(kind, openOk) ==
    /\ ExtractFrame
    /\ exPc = "idle"
    /\ exKind' = kind
    /\ IF openOk
       THEN exPc' = "entries" /\ UNCHANGED exResult
       ELSE exPc' = "done" /\ exResult' = ExErr("open")
    /\ UNCHANGED <<exCount, exLast, exTop, exUnsafe>>

HasUnsafeComponent(path) ==
    \E i \in 1..Len(path) : path[i] \in {ParentDir, RootDir}

\* One pass of the loop of extract_tar_gz (zip.rs:87-142).
TarEntry(entry_path, is_dir, parentExists, failAt) ==
    /\ ExtractFrame
    /\ exPc = "entries"
    /\ exKind = "tar"
    /\ exCount < MaxEntries
    /\ exCount' = exCount + 1
    /\ IF failAt = "read_entry"
       THEN /\ exPc' = "done"
            /\ exResult' = ExErr("read_entry")
            /\ exLast' = {}
            /\ UNCHANGED <<exTop, exUnsafe>>
       ELSE LET safe == SanitizeRelativePath(entry_path)
            IN /\ exUnsafe' = (exUnsafe \/ HasUnsafeComponent(entry_path))
               /\ IF ~safe.ok
                  THEN /\ exPc' = "done"
                       /\ exResult' = ExErr(safe.err)
                       /\ exLast' = {}
                       /\ UNCHANGED exTop
                  ELSE IF safe.path = <<>>
                  THEN /\ exLast' = {}
                       /\ UNCHANGED <<exPc, exResult, exTop>>
                  ELSE /\ exTop' = IF exTop = <<>> THEN <<safe.path[1]>> ELSE exTop
                       /\ exLast' = PathsCreated(safe.path, is_dir, parentExists, failAt)
                       /\ IF EntryFails(is_dir, parentExists, failAt)
                          THEN exPc' = "done" /\ exResult' = ExErr("io")
                          ELSE UNCHANGED <<exPc, exResult>>
    /\ UNCHANGED exKind

\* The entries of the tar stream are exhausted (zip.rs:144).
TarEnd ==
    /\ ExtractFrame
    /\ exPc = "entries"
    /\ exKind = "tar"
    /\ exPc' = "done"
    /\ exResult' = IF exTop = <<>> THEN ExErr("empty") ELSE ExOk
    /\ exLast' = {}
    /\ UNCHANGED <<exKind, exCount, exTop, exUnsafe>>

\* outpath.to_string_lossy().contains("META-INF")
HasMetaInf(path) == \E i \in 1..Len(path) : path[i] = "META-INF"

\* One pass of the loop of extract_zip (zip.rs:37-64).
ZipEntry(name, is_dir, parentExists, failAt) ==
    /\ ExtractFrame
    /\ exPc = "entries"
    /\ exKind = "zip"
    /\ exCount < MaxEntries
    /\ exCount' = exCount + 1
    /\ IF failAt = "read_entry"
       THEN /\ exPc' = "done"
            /\ exResult' = ExErr("read_entry")
            /\ exLast' = {}
            /\ UNCHANGED exUnsafe
       ELSE LET enclosed == EnclosedName(name)
            IN /\ exUnsafe' = (exUnsafe \/ HasUnsafeComponent(name))
               /\ IF ~enclosed.some \/ HasMetaInf(enclosed.path)
                  THEN /\ exLast' = {}
                       /\ UNCHANGED <<exPc, exResult>>
                  ELSE /\ exLast' = PathsCreated(enclosed.path, is_dir, parentExists, failAt)
                       /\ IF EntryFails(is_dir, parentExists, failAt)
                          THEN exPc' = "done" /\ exResult' = ExErr("io")
                          ELSE UNCHANGED <<exPc, exResult>>
    /\ UNCHANGED <<exKind, exTop>>

\* Every index of the zip archive has been visited (zip.rs:66).
ZipEnd ==
    /\ ExtractFrame
    /\ exPc = "entries"
    /\ exKind = "zip"
    /\ exPc' = "done"
    /\ exResult' = ExOk
    /\ exLast' = {}
    /\ UNCHANGED <<exKind, exCount, exTop, exUnsafe>>

\* The caller takes the result.
ExtractReturn ==
    /\ ExtractFrame
    /\ exPc = "done"
    /\ exPc' = "idle"
    /\ exKind' = "none"
    /\ exCount' = 0
    /\ exLast' = {}
    /\ exTop' = <<>>
    /\ exUnsafe' = FALSE
    /\ exResult' = ExNone

ExtractNext ==
    \/ \E k \in {"tar", "zip"}, ok \in BOOLEAN : ExtractStart(k, ok)
    \/ \E e \in EntryPaths, d \in BOOLEAN, pe \in BOOLEAN, fa \in EntryFailures :
          TarEntry(e, d, pe, fa)
    \/ TarEnd
    \/ \E e \in EntryPaths, d \in BOOLEAN, pe \in BOOLEAN, fa \in EntryFailures :
          ZipEntry(e, d, pe, fa)
    \/ ZipEnd
    \/ ExtractReturn

-----------------------------------------------------------------------------
\* Download engine (core/downloader.rs): download_files, and
\* download_with_resume with the cancel flag.

\* Semaphore::new(10) and buffer_unordered(10).
DOWNLOAD_MAX_CONCURRENT == 10

\* Most tasks of one download_files call, and most chunks of one body.
MaxBatch == 2
MaxChunks == 2

\* A download-progress event of one file: status and downloaded bytes, a
\* chunk counting as one byte.
ProgressEvent(status, downloaded) == [status |-> status, downloaded |-> downloaded]
NoEvent == ProgressEvent("none", 0)

\* A task of download_files: whether it carries a sha1 or sha256, where it
\* is, how it ended, its last progress event, the chunks written to its file
\* and whether the bytes on disk at the end match the checksum.
NewTask(hasSum) ==
    [sum |-> hasSum, st |-> "waiting", outcome |-> "none", last |-> NoEvent,
     chunks |-> 0, diskOk |-> FALSE]

TaskConfigs == UNION {[1..n -> BOOLEAN] : n \in 0..MaxBatch}

BatchSlots == 1..MaxBatch

DownloadFrame == UNCHANGED <<installVars, retryVars, catalogVars, writerVars, extractVars, versionVars, resolveVars, classifyVars, checksumVars, configVars, pendingVars, stepVars, updateVars>>

BatchIdle ==
    /\ dfPc = "idle"
    /\ dfTasks = <<>>
    /\ dfPermits = DOWNLOAD_MAX_CONCURRENT
    /\ dfStartEvents = 0
    /\ dfCompleteEvents = 0
    /\ dfResult = "none"

ResumeIdle ==
    /\ rsPc = "idle"
    /\ rsSum = FALSE
    /\ rsWritten = 0
    /\ rsDiskOk = FALSE
    /\ rsResult = "none"
    /\ rsEntry = FALSE

DownloadIdle ==
    /\ cancelFlag = FALSE
    /\ BatchIdle
    /\ ResumeIdle

resumeVars == <<rsPc, rsSum, rsWritten, rsDiskOk, rsResult, rsEntry>>
batchVars == <<dfPc, dfTasks, dfPermits, dfStartEvents, dfCompleteEvents, dfResult>>

\* downloader.rs:54-59: download_files is called and emits download-start.
\* One downloader runs at a time in this model.
DownloadFilesStart(config) ==
    /\ DownloadFrame
    /\ dfPc = "idle"
    /\ rsPc = "idle"
    /\ dfPc' = "running"
    /\ dfTasks' = [k \in 1..Len(config) |-> NewTask(config[k])]
    /\ dfStartEvents' = dfStartEvents + 1
    /\ UNCHANGED <<cancelFlag, dfPermits, dfCompleteEvents, dfResult, resumeVars>>

\* The task emits a download-progress event.
Emit(task, status, downloaded) ==
    [task EXCEPT !.last = ProgressEvent(status, downloaded)]

\* The task returns: its future ends and drops the permit.
EndTask(task, outcome) == [task EXCEPT !.st = "ended", !.outcome = outcome]

\* Plausible bug: the task goes on without waiting for a permit.
TaskAcquireNoWait(k) ==
    /\ DownloadFrame
    /\ dfPc = "running"
    /\ k \in 1..Len(dfTasks)
    /\ dfTasks[k].st = "waiting"
    /\ dfPermits' = dfPermits - 1
    /\ dfTasks' = [dfTasks EXCEPT ![k].st = "check"]
    /\ UNCHANGED <<cancelFlag, dfPc, dfStartEvents, dfCompleteEvents, dfResult, resumeVars>>

\* downloader.rs:67: semaphore.acquire().await
TaskAcquire(k) ==
    /\ DownloadFrame
    /\ dfPc = "running"
    /\ k \in 1..Len(dfTasks)
    /\ dfTasks[k].st = "waiting"
    /\ dfPermits > 0
    /\ dfPermits' = dfPermits - 1
    /\ dfTasks' = [dfTasks EXCEPT ![k].st = "check"]
    /\ UNCHANGED <<cancelFlag, dfPc, dfStartEvents, dfCompleteEvents, dfResult, resumeVars>>

\* downloader.rs:70-103: an existing file is verified; with a checksum that
\* matches the task is skipped.
TaskCheckExisting(k, exists, readOk, matches) ==
    /\ DownloadFrame
    /\ dfPc = "running"
    /\ k \in 1..Len(dfTasks)
    /\ dfTasks[k].st = "check"
    /\ LET task == dfTasks[k]
           seen == IF exists THEN Emit(task, "Verifying", 0) ELSE task
       IN IF exists /\ task.sum /\ readOk /\ matches
          THEN /\ dfTasks' = [dfTasks EXCEPT ![k] =
                                [EndTask(Emit(seen, "Skipped", 0), "skipped")
                                    EXCEPT !.diskOk = TRUE]]
               /\ dfPermits' = dfPermits + 1
          ELSE /\ dfTasks' = [dfTasks EXCEPT ![k] = [seen EXCEPT !.st = "request"]]
               /\ UNCHANGED dfPermits
    /\ UNCHANGED <<cancelFlag, dfPc, dfStartEvents, dfCompleteEvents, dfResult, resumeVars>>

\* Plausible bug: the permit is not given back when the task returns early
\* from its request.
TaskRequestKeepsPermit(k, sendOk, createOk) ==
    /\ DownloadFrame
    /\ dfPc = "running"
    /\ k \in 1..Len(dfTasks)
    /\ dfTasks[k].st = "request"
    /\ IF ~sendOk
       THEN dfTasks' = [dfTasks EXCEPT ![k] = EndTask(dfTasks[k], "request_error")]
       ELSE IF ~createOk
       THEN dfTasks' = [dfTasks EXCEPT ![k] = EndTask(dfTasks[k], "create_error")]
       ELSE dfTasks' = [dfTasks EXCEPT ![k].st = "stream"]
    /\ UNCHANGED dfPermits
    /\ UNCHANGED <<cancelFlag, dfPc, dfStartEvents, dfCompleteEvents, dfResult, resumeVars>>

\* downloader.rs:105-116, 141: the parent directory, the GET request and
\* the creation of the file.
TaskRequest(k, sendOk, createOk) ==
    /\ DownloadFrame
    /\ dfPc = "running"
    /\ k \in 1..Len(dfTasks)
    /\ dfTasks[k].st = "request"
    /\ IF ~sendOk
       THEN /\ dfTasks' = [dfTasks EXCEPT ![k] = EndTask(dfTasks[k], "request_error")]
            /\ dfPermits' = dfPermits + 1
       ELSE IF ~createOk
       THEN /\ dfTasks' = [dfTasks EXCEPT ![k] = EndTask(dfTasks[k], "create_error")]
            /\ dfPermits' = dfPermits + 1
       ELSE /\ dfTasks' = [dfTasks EXCEPT ![k].st = "stream"]
            /\ UNCHANGED dfPermits
    /\ UNCHANGED <<cancelFlag, dfPc, dfStartEvents, dfCompleteEvents, dfResult, resumeVars>>

\* What resp.chunk().await and file.write_all bring.
ChunkOutcomes == {"chunk", "eof", "stream_error", "write_error"}

\* downloader.rs:119-154: one pass of the chunk loop: a chunk is written and
\* reported, or the body ends and Finished is emitted, or the stream or the
\* write fails. `matches`: the bytes then on disk match the checksum.
TaskChunk(k, outcome, matches) ==
    /\ DownloadFrame
    /\ dfPc = "running"
    /\ k \in 1..Len(dfTasks)
    /\ dfTasks[k].st = "stream"
    /\ LET task == dfTasks[k]
       IN IF outcome = "chunk"
          THEN /\ task.chunks < MaxChunks
               /\ dfTasks' = [dfTasks EXCEPT ![k] =
                     Emit([task EXCEPT !.chunks = task.chunks + 1],
                          "Downloading", task.chunks + 1)]
               /\ UNCHANGED dfPermits
          ELSE IF outcome = "eof"
          THEN /\ dfTasks' = [dfTasks EXCEPT ![k] =
                     [EndTask(Emit(task, "Finished", 0), "finished")
                         EXCEPT !.diskOk = matches]]
               /\ dfPermits' = dfPermits + 1
          ELSE /\ dfTasks' = [dfTasks EXCEPT ![k] = EndTask(task, outcome)]
               /\ dfPermits' = dfPermits + 1
    /\ UNCHANGED <<cancelFlag, dfPc, dfStartEvents, dfCompleteEvents, dfResult, resumeVars>>

AllTasksEnded == \A k \in 1..Len(dfTasks) : dfTasks[k].st = "ended"

\* Plausible bug: the first Err among the collected results is returned.
DownloadFilesCompletePropagates ==
    /\ DownloadFrame
    /\ dfPc = "running"
    /\ AllTasksEnded
    /\ dfPc' = "done"
    /\ IF \E k \in 1..Len(dfTasks) : dfTasks[k].outcome \notin {"finished", "skipped"}
       THEN dfResult' = "Err" /\ UNCHANGED dfCompleteEvents
       ELSE dfResult' = "Ok" /\ dfCompleteEvents' = dfCompleteEvents + 1
    /\ UNCHANGED <<cancelFlag, dfTasks, dfPermits, dfStartEvents, resumeVars>>

\* downloader.rs:158-165: every task has ended; download-complete is emitted
\* and Ok(()) returned.
DownloadFilesComplete ==
    /\ DownloadFrame
    /\ dfPc = "running"
    /\ AllTasksEnded
    /\ dfPc' = "done"
    /\ dfCompleteEvents' = dfCompleteEvents + 1
    /\ dfResult' = "Ok"
    /\ UNCHANGED <<cancelFlag, dfTasks, dfPermits, dfStartEvents, resumeVars>>

\* The caller takes the result.
DownloadFilesReturn ==
    /\ DownloadFrame
    /\ dfPc = "done"
    /\ dfPc' = "idle"
    /\ dfTasks' = <<>>
    /\ dfStartEvents' = 0
    /\ dfCompleteEvents' = 0
    /\ dfResult' = "none"
    /\ UNCHANGED <<cancelFlag, dfPermits, resumeVars>>

\* cancel_current_download (mod.rs:374-376): cancel_java_download sets the
\* flag.
CancelCurrentDownload ==
    /\ DownloadFrame
    /\ ~cancelFlag
    /\ cancelFlag' = TRUE
    /\ UNCHANGED <<batchVars, resumeVars>>

\* download_with_resume is called by the installer (install.rs:66-75), its
\* pending-queue entry saved before (install.rs:50). The flag is cleared as
\* the download begins.
ResumeStart(hasSum) ==
    /\ DownloadFrame
    /\ rsPc = "idle"
    /\ dfPc = "idle"
    /\ rsPc' = "request"
    /\ rsSum' = hasSum
    /\ rsEntry' = TRUE
    /\ cancelFlag' = FALSE
    /\ UNCHANGED <<batchVars, rsWritten, rsDiskOk, rsResult>>

\* The range request from the size of the partial file.
ResumeRequest(ok) ==
    /\ DownloadFrame
    /\ rsPc = "request"
    /\ IF ok
       THEN rsPc' = "check" /\ UNCHANGED rsResult
       ELSE rsPc' = "done" /\ rsResult' = "DownloadError"
    /\ UNCHANGED <<cancelFlag, batchVars, rsSum, rsWritten, rsDiskOk, rsEntry>>

\* The check at a chunk boundary: Cancelled when the flag is set.
ResumeCheck ==
    /\ DownloadFrame
    /\ rsPc = "check"
    /\ IF cancelFlag
       THEN rsPc' = "done" /\ rsResult' = "Cancelled"
       ELSE rsPc' = "chunk" /\ UNCHANGED rsResult
    /\ UNCHANGED <<cancelFlag, batchVars, rsSum, rsWritten, rsDiskOk, rsEntry>>

\* The next chunk is appended; or the body ends and the checksum is
\* verified; or the transfer fails.
ResumeChunk(outcome, matches) ==
    /\ DownloadFrame
    /\ rsPc = "chunk"
    /\ IF outcome = "chunk"
       THEN /\ rsWritten < MaxChunks
            /\ rsWritten' = rsWritten + 1
            /\ rsPc' = "check"
            /\ UNCHANGED <<rsResult, rsDiskOk>>
       ELSE IF outcome = "eof"
       THEN /\ rsPc' = "done"
            /\ rsDiskOk' = matches
            /\ rsResult' = IF rsSum /\ ~matches THEN "ChecksumMismatch" ELSE "Ok"
            /\ UNCHANGED rsWritten
       ELSE /\ rsPc' = "done"
            /\ rsResult' = "DownloadError"
            /\ UNCHANGED <<rsWritten, rsDiskOk>>
    /\ UNCHANGED <<cancelFlag, batchVars, rsSum, rsEntry>>

\* Plausible bug: a download that was cancelled retires the queue entry.
ResumeReturnDropsEntry(installOk) ==
    /\ DownloadFrame
    /\ rsPc = "done"
    /\ rsPc' = "returned"
    /\ rsEntry' = IF (rsResult = "Ok" /\ installOk) \/ rsResult = "Cancelled"
                  THEN FALSE ELSE rsEntry
    /\ UNCHANGED <<cancelFlag, batchVars, rsSum, rsWritten, rsDiskOk, rsResult>>

\* install.rs:74-127: an error of the download is returned by `?` with the
\* queue untouched; after Ok the install goes on and removes its entry when
\* it succeeds.
ResumeReturn(installOk) ==
    /\ DownloadFrame
    /\ rsPc = "done"
    /\ rsPc' = "returned"
    /\ rsEntry' = IF rsResult = "Ok" /\ installOk THEN FALSE ELSE rsEntry
    /\ UNCHANGED <<cancelFlag, batchVars, rsSum, rsWritten, rsDiskOk, rsResult>>

\* The installer has returned to its caller.
ResumeReset ==
    /\ DownloadFrame
    /\ rsPc = "returned"
    /\ rsPc' = "idle"
    /\ rsSum' = FALSE
    /\ rsWritten' = 0
    /\ rsDiskOk' = FALSE
    /\ rsResult' = "none"
    /\ rsEntry' = FALSE
    /\ UNCHANGED <<cancelFlag, batchVars>>

DownloadNext ==
    \/ \E c \in TaskConfigs : DownloadFilesStart(c)
    \/ \E k \in BatchSlots : TaskAcquire(k)
    \/ \E k \in BatchSlots, e \in BOOLEAN, r \in BOOLEAN, m \in BOOLEAN :
          TaskCheckExisting(k, e, r, m)
    \/ \E k \in BatchSlots, so \in BOOLEAN, co \in BOOLEAN : TaskRequest(k, so, co)
    \/ \E k \in BatchSlots, o \in ChunkOutcomes, m \in BOOLEAN : TaskChunk(k, o, m)
    \/ DownloadFilesComplete
    \/ DownloadFilesReturn
    \/ CancelCurrentDownload
    \/ \E h \in BOOLEAN : ResumeStart(h)
    \/ \E ok \in BOOLEAN : ResumeRequest(ok)
    \/ ResumeCheck
    \/ \E o \in {"chunk", "eof", "error"}, m \in BOOLEAN : ResumeChunk(o, m)
    \/ \E ok \in BOOLEAN : ResumeReturn(ok)
    \/ ResumeReset

-----------------------------------------------------------------------------
\* Version parsing (core/java.rs).  A string is the sequence of its
\* characters.

\* Longest version string drawn from VersionChars.
MaxVersionLen == 4

VersionChars == {"1", "8", ".", "-", "_", "+"}

\* The version strings of the banners of a legacy, a current, a bare and an
\* early-access runtime.
LegacyVersion == <<"1", ".", "8", ".", "0", "_", "3", "0", "1">>
DottedVersion == <<"1", "7", ".", "0", ".", "1">>
BareVersion == <<"2", "1">>
EarlyAccessVersion == <<"1", "1", "-", "e", "a">>

VersionInputs ==
    UNION {[1..n -> VersionChars] : n \in 0..MaxVersionLen}
        \cup {LegacyVersion, DottedVersion, BareVersion, EarlyAccessVersion}

DigitChars == <<"0", "1", "2", "3", "4", "5", "6", "7", "8", "9">>

IsDigit(c) == \E i \in 1..Len(DigitChars) : DigitChars[i] = c

DigitValue(c) == (CHOOSE i \in 1..Len(DigitChars) : DigitChars[i] = c) - 1

RECURSIVE DigitsValue(_)
DigitsValue(ds) ==
    IF ds = <<>> THEN 0
    ELSE DigitsValue(SubSeq(ds, 1, Len(ds) - 1)) * 10 + DigitValue(ds[Len(ds)])

\* version.split('.'): the parts between the dots; a string without a dot,
\* the empty string included, is one part.
RECURSIVE SplitDot(_)
SplitDot(s) ==
    IF s = <<>> THEN << <<>> >>
    ELSE LET rest == SplitDot(Tail(s))
         IN  IF Head(s) = "." THEN << <<>> >> \o rest
             ELSE << <<Head(s)>> \o Head(rest) >> \o Tail(rest)

\* str::parse::<u32>(): an optional '+' and then one or more decimal digits;
\* anything else, a '-' included, is an error.  The result is {} for Err and
\* {n} for Ok(n).  The strings of the model have fewer than ten digits, so
\* the overflow error of parse does not arise.
ParseU32(part) ==
    LET digits == IF part # <<>> /\ Head(part) = "+" THEN Tail(part) ELSE part
    IN  IF digits = <<>> \/ \E i \in 1..Len(digits) : ~IsDigit(digits[i])
        THEN {}
        ELSE {DigitsValue(digits)}

UnwrapOr(opt, default) == IF opt = {} THEN default ELSE CHOOSE n \in opt : TRUE

\* parse_java_version: the second part of a string whose first part is "1",
\* the first part of any other string, 0 when that part does not parse.
ParseJavaVersion(version) ==
    LET parts == SplitDot(version)
        first == parts[1]
    IN  IF first = <<"1">>
        THEN UnwrapOr(IF Len(parts) >= 2 THEN ParseU32(parts[2]) ELSE {}, 0)
        ELSE UnwrapOr(ParseU32(first), 0)

VersionFrame == UNCHANGED <<installVars, retryVars, catalogVars, writerVars, extractVars, downloadVars, resolveVars, classifyVars, checksumVars, configVars, pendingVars, stepVars, updateVars>>

VersionIdle ==
    /\ pjCalled = FALSE
    /\ pjVersion = <<>>
    /\ pjMajor = 0

ParseJavaVersionCall(version) ==
    /\ ~pjCalled
    /\ pjCalled' = TRUE
    /\ pjVersion' = version
    /\ pjMajor' = ParseJavaVersion(version)
    /\ VersionFrame

\* The caller has used the result.
ParseJavaVersionReturn ==
    /\ pjCalled
    /\ pjCalled' = FALSE
    /\ pjVersion' = <<>>
    /\ pjMajor' = 0
    /\ VersionFrame

VersionNext ==
    \/ \E version \in VersionInputs : ParseJavaVersionCall(version)
    \/ ParseJavaVersionReturn

-----------------------------------------------------------------------------
\* Compatibility resolver (core/java/priority.rs, core/java/mod.rs).

\* Number of distinct executable paths.
MaxPaths == 2

Paths == 1..MaxPaths

\* A u64 is hi * 2^32 + lo with lo below 2^32.
U64(high, low) == [hi |-> high, lo |-> low]

\* `required as u32`: the low 32 bits.
AsU32(required) == required.lo

\* major >= required for a 32-bit major and a 64-bit required.
U32AtLeastU64(major, required) == required.hi = 0 /\ major >= required.lo

Only(opt) == CHOOSE x \in opt : TRUE

MinInputs == {{}, {U64(0, 17)}, {U64(1, 8)}}

MaxInputs == {{}, {17}}

InstalledVersions == {LegacyVersion, DottedVersion, BareVersion}

JavaInstallation(p, v) == [path |-> p, version |-> v]

\* check_java_installation(path): None, or the installation the banner of
\* the executable describes.
CheckJavaInstallation(p) ==
    {{}} \cup {{JavaInstallation(p, v)} : v \in InstalledVersions}

ProbeResults == UNION {CheckJavaInstallation(p) : p \in Paths}

Major(java) == ParseJavaVersion(java.version)

\* is_version_compatible of priority.rs.
IsVersionCompatible(java, required_major_version, max_major_version) ==
    LET major == ParseJavaVersion(java.version)
        meets_min == IF required_major_version # {}
                     THEN major >= AsU32(Only(required_major_version))
                     ELSE TRUE
        meets_max == IF max_major_version # {}
                     THEN major <= Only(max_major_version)
                     ELSE TRUE
    IN  meets_min /\ meets_max

\* validation::is_version_compatible.
ValidationIsVersionCompatible(major, min, max) ==
    /\ (min = {} \/ U32AtLeastU64(major, Only(min)))
    /\ (max = {} \/ major <= Only(max))

\* The comparison of get_recommended_java.
RecommendedAccepts(java, required_major_version) ==
    ParseJavaVersion(java.version) >= AsU32(Only(required_major_version))

\* Plausible bug: an unstable sort, an installation going before those of
\* its major already placed.
RECURSIVE InsertByMajorBeforeEquals(_, _)
InsertByMajorBeforeEquals(java, list) ==
    IF list = <<>> THEN <<java>>
    ELSE IF Major(Head(list)) > Major(java)
         THEN <<Head(list)>> \o InsertByMajorBeforeEquals(java, Tail(list))
         ELSE <<java>> \o list

\* installations.sort_by(|a, b| v_b.cmp(&v_a)): stable, descending by major.
RECURSIVE InsertByMajor(_, _)
InsertByMajor(java, list) ==
    IF list = <<>> THEN <<java>>
    ELSE IF Major(Head(list)) >= Major(java)
         THEN <<Head(list)>> \o InsertByMajor(java, Tail(list))
         ELSE <<java>> \o list

RECURSIVE SortByMajor(_)
SortByMajor(list) ==
    IF list = <<>> THEN <<>>
    ELSE InsertByMajor(list[Len(list)], SortByMajor(SubSeq(list, 1, Len(list) - 1)))

\* if !installations.iter().any(|j| j.path == java.path) { push }
PushUnlessKnown(list, probe) ==
    IF probe = {} \/ \E i \in 1..Len(list) : list[i].path = Only(probe).path
    THEN list
    ELSE Append(list, Only(probe))

ResolveFrame == UNCHANGED <<installVars, retryVars, catalogVars, writerVars, extractVars, downloadVars, versionVars, classifyVars, checksumVars, configVars, pendingVars, stepVars, updateVars>>

ResolveIdle ==
    /\ rjFn = "none"
    /\ rjPc = "idle"
    /\ rjMin = {}
    /\ rjMax = {}
    /\ rjTried = <<>>
    /\ rjList = <<>>
    /\ rjIdx = 1
    /\ rjChecked = {}
    /\ rjResult = {}
    /\ rjLayer = 0

ResolveJavaForLaunchStart(min, max) ==
    /\ rjPc = "idle"
    /\ rjFn' = "resolve"
    /\ rjPc' = "instance"
    /\ rjMin' = min
    /\ rjMax' = max
    /\ UNCHANGED <<rjTried, rjList, rjIdx, rjChecked, rjResult, rjLayer>>
    /\ ResolveFrame

GetCompatibleJavaStart(min, max) ==
    /\ rjPc = "idle"
    /\ rjFn' = "compatible"
    /\ rjPc' = "detect"
    /\ rjMin' = min
    /\ rjMax' = max
    /\ UNCHANGED <<rjTried, rjList, rjIdx, rjChecked, rjResult, rjLayer>>
    /\ ResolveFrame

GetRecommendedJavaStart(min) ==
    /\ rjPc = "idle"
    /\ rjFn' = "recommended"
    /\ rjPc' = "detect"
    /\ rjMin' = min
    /\ rjMax' = {}
    /\ UNCHANGED <<rjTried, rjList, rjIdx, rjChecked, rjResult, rjLayer>>
    /\ ResolveFrame

\* One of the first three layers: the candidate path is probed unless it is
\* absent or empty, and the installation is returned when it is compatible.
TryLayer(layer, nextPc, arg, probe) ==
    LET java == IF arg = "path" THEN probe ELSE {}
        hit == java # {} /\ IsVersionCompatible(Only(java), rjMin, rjMax)
    IN  /\ rjTried' = Append(rjTried, [arg |-> arg, java |-> java])
        /\ rjChecked' = IF java = {} THEN {}
                        ELSE {[major |-> Major(Only(java)), verdict |-> hit]}
        /\ rjResult' = IF hit THEN java ELSE {}
        /\ rjLayer' = IF hit THEN layer ELSE 0
        /\ rjPc' = IF hit THEN "done" ELSE nextPc
        /\ UNCHANGED <<rjFn, rjMin, rjMax, rjList, rjIdx>>
        /\ ResolveFrame

InstanceOverride(arg, probe) ==
    /\ rjPc = "instance"
    /\ TryLayer(1, "global", arg, probe)

GlobalOverride(arg, probe) ==
    /\ rjPc = "global"
    /\ TryLayer(2, "preferred", arg, probe)

\* get_preferred_java_path has no check for an empty path.
PreferredPath(arg, probe) ==
    /\ rjPc = "preferred"
    /\ arg # "empty"
    /\ TryLayer(3, "detect", arg, probe)

\* detect_java_installations: one candidate of the scanner.
DetectCandidate(probe) ==
    /\ rjPc = "detect"
    /\ rjList' = PushUnlessKnown(rjList, probe)
    /\ UNCHANGED <<rjFn, rjPc, rjMin, rjMax, rjTried, rjIdx, rjChecked, rjResult, rjLayer>>
    /\ ResolveFrame

DetectSort ==
    /\ rjPc = "detect"
    /\ rjList' = SortByMajor(rjList)
    /\ rjPc' = IF rjFn = "recommended" THEN "find" ELSE "managed"
    /\ UNCHANGED <<rjFn, rjMin, rjMax, rjTried, rjIdx, rjChecked, rjResult, rjLayer>>
    /\ ResolveFrame

\* detect_all_java_installations: one directory of the managed tree.
ManagedEntry(probe) ==
    /\ rjPc = "managed"
    /\ rjList' = PushUnlessKnown(rjList, probe)
    /\ UNCHANGED <<rjFn, rjPc, rjMin, rjMax, rjTried, rjIdx, rjChecked, rjResult, rjLayer>>
    /\ ResolveFrame

ManagedSort ==
    /\ rjPc = "managed"
    /\ rjList' = SortByMajor(rjList)
    /\ rjPc' = "find"
    /\ UNCHANGED <<rjFn, rjMin, rjMax, rjTried, rjIdx, rjChecked, rjResult, rjLayer>>
    /\ ResolveFrame

\* The verdict of find on one installation.
FindAccepts(java) ==
    CASE rjFn = "resolve" -> IsVersionCompatible(java, rjMin, rjMax)
      [] rjFn = "compatible" ->
             ValidationIsVersionCompatible(Major(java), rjMin, rjMax)
      [] rjFn = "recommended" ->
             rjMin = {} \/ RecommendedAccepts(java, rjMin)

\* installations.into_iter().find(..), or next() for get_recommended_java
\* without a required version: one installation per step.
FindStep ==
    /\ rjPc = "find"
    /\ IF rjIdx > Len(rjList)
       THEN /\ rjPc' = "done"
            /\ rjChecked' = {}
            /\ UNCHANGED <<rjIdx, rjResult, rjLayer>>
       ELSE LET java == rjList[rjIdx]
                hit == FindAccepts(java)
            IN  /\ rjChecked' = IF rjFn = "recommended" /\ rjMin = {} THEN {}
                                ELSE {[major |-> Major(java), verdict |-> hit]}
                /\ rjResult' = IF hit THEN {java} ELSE {}
                /\ rjLayer' = IF hit THEN 4 ELSE 0
                /\ rjPc' = IF hit THEN "done" ELSE "find"
                /\ rjIdx' = IF hit THEN rjIdx ELSE rjIdx + 1
    /\ UNCHANGED <<rjFn, rjMin, rjMax, rjTried, rjList>>
    /\ ResolveFrame

\* The caller has used the result.
ResolveReturn ==
    /\ rjPc = "done"
    /\ rjFn' = "none"
    /\ rjPc' = "idle"
    /\ rjMin' = {}
    /\ rjMax' = {}
    /\ rjTried' = <<>>
    /\ rjList' = <<>>
    /\ rjIdx' = 1
    /\ rjChecked' = {}
    /\ rjResult' = {}
    /\ rjLayer' = 0
    /\ ResolveFrame

LayerArgs == {"none", "empty", "path"}

ResolveNext ==
    \/ \E min \in MinInputs, max \in MaxInputs : ResolveJavaForLaunchStart(min, max)
    \/ \E min \in MinInputs, max \in MaxInputs : GetCompatibleJavaStart(min, max)
    \/ \E min \in MinInputs : GetRecommendedJavaStart(min)
    \/ \E arg \in LayerArgs, probe \in ProbeResults : InstanceOverride(arg, probe)
    \/ \E arg \in LayerArgs, probe \in ProbeResults : GlobalOverride(arg, probe)
    \/ \E arg \in LayerArgs, probe \in ProbeResults : PreferredPath(arg, probe)
    \/ \E probe \in ProbeResults : DetectCandidate(probe)
    \/ DetectSort
    \/ \E probe \in ProbeResults : ManagedEntry(probe)
    \/ ManagedSort
    \/ FindStep
    \/ ResolveReturn

-----------------------------------------------------------------------------
\* Resume failure classifier (core/java/error.rs).  A message is the
\* sequence of its characters.

\* Number of fragments a message is put together from.
MaxFragments == 2

LowerLetters ==
    <<"a", "b", "c", "d", "e", "f", "g", "h", "i", "j", "k", "l", "m", "n", "o", "p", "q", "r", "s", "t", "u", "v", "w", "x", "y", "z">>

UpperLetters ==
    <<"A", "B", "C", "D", "E", "F", "G", "H", "I", "J", "K", "L", "M", "N", "O", "P", "Q", "R", "S", "T", "U", "V", "W", "X", "Y", "Z">>

IsUpper(c) == \E i \in 1..Len(UpperLetters) : UpperLetters[i] = c

IsLower(c) == \E i \in 1..Len(LowerLetters) : LowerLetters[i] = c

\* str::to_ascii_lowercase: 'A'..'Z' become 'a'..'z', every other character
\* stays.
ToAsciiLowercase(s) ==
    [i \in 1..Len(s) |->
        IF IsUpper(s[i])
        THEN LowerLetters[CHOOSE k \in 1..Len(UpperLetters) : UpperLetters[k] = s[i]]
        ELSE s[i]]

ToAsciiUppercase(s) ==
    [i \in 1..Len(s) |->
        IF IsLower(s[i])
        THEN UpperLetters[CHOOSE k \in 1..Len(LowerLetters) : LowerLetters[k] = s[i]]
        ELSE s[i]]

\* str::contains(pattern)
Contains(s, pattern) ==
    \E i \in 1..(Len(s) - Len(pattern) + 1) :
        SubSeq(s, i, i + Len(pattern) - 1) = pattern

\* The trigger substrings of from_error_message.
KwCancel ==
    <<"c", "a", "n", "c", "e", "l">>

KwChecksum ==
    <<"c", "h", "e", "c", "k", "s", "u", "m">>

KwExtract ==
    <<"e", "x", "t", "r", "a", "c", "t">>

KwUnsupportedArchive ==
    <<"u", "n", "s", "u", "p", "p", "o", "r", "t", "e", "d", " ", "a", "r", "c", "h", "i", "v", "e">>

KwVerify ==
    <<"v", "e", "r", "i", "f", "y">>

KwJavaExecutableNotFound ==
    <<"j", "a", "v", "a", " ", "e", "x", "e", "c", "u", "t", "a", "b", "l", "e", " ", "n", "o", "t", " ", "f", "o", "u", "n", "d">>

KwRequest ==
    <<"r", "e", "q", "u", "e", "s", "t">>

KwNetwork ==
    <<"n", "e", "t", "w", "o", "r", "k">>

KwTimedOut ==
    <<"t", "i", "m", "e", "d", " ", "o", "u", "t">>

KwHttpStatus ==
    <<"h", "t", "t", "p", " ", "s", "t", "a", "t", "u", "s">>

KwArchive ==
    <<"a", "r", "c", "h", "i", "v", "e">>

KwTopLevelDirectory ==
    <<"t", "o", "p", "-", "l", "e", "v", "e", "l", " ", "d", "i", "r", "e", "c", "t", "o", "r", "y">>

KwCreate ==
    <<"c", "r", "e", "a", "t", "e">>

KwWrite ==
    <<"w", "r", "i", "t", "e">>

KwRead ==
    <<"r", "e", "a", "d">>

KwRename ==
    <<"r", "e", "n", "a", "m", "e">>

KwPermission ==
    <<"p", "e", "r", "m", "i", "s", "s", "i", "o", "n">>

KwDirectory ==
    <<"d", "i", "r", "e", "c", "t", "o", "r", "y">>

KwPath ==
    <<"p", "a", "t", "h">>

\* The rules of from_error_message, tried in the order of the code on the
\* lowercased message; the first whose keyword occurs gives the reason.
ClassifyLowercased(lower) ==
        IF Contains(lower, KwCancel) THEN "Cancelled"
        ELSE IF Contains(lower, KwChecksum) THEN "ChecksumMismatch"
        ELSE IF Contains(lower, KwExtract) \/ Contains(lower, KwUnsupportedArchive)
             THEN "ExtractionFailed"
        ELSE IF Contains(lower, KwVerify) \/ Contains(lower, KwJavaExecutableNotFound)
             THEN "VerificationFailed"
        ELSE IF \/ Contains(lower, KwRequest)
                \/ Contains(lower, KwNetwork)
                \/ Contains(lower, KwTimedOut)
                \/ Contains(lower, KwHttpStatus)
             THEN "Network"
        ELSE IF Contains(lower, KwArchive) \/ Contains(lower, KwTopLevelDirectory)
             THEN "InvalidArchive"
        ELSE IF \/ Contains(lower, KwCreate)
                \/ Contains(lower, KwWrite)
                \/ Contains(lower, KwRead)
                \/ Contains(lower, KwRename)
                \/ Contains(lower, KwPermission)
                \/ Contains(lower, KwDirectory)
                \/ Contains(lower, KwPath)
             THEN "Filesystem"
        ELSE "Unknown"

\* from_error_message with the lowercasing left out.
FromErrorMessageCaseSensitive(error) == ClassifyLowercased(error)

\* from_error_message
FromErrorMessage(error) == ClassifyLowercased(ToAsciiLowercase(error))

\* Messages of the tests of error.rs, and fragments that are no keyword.
MsgCancelledTimeout ==
    <<"r", "e", "q", "u", "e", "s", "t", " ", "c", "a", "n", "c", "e", "l", "l", "e", "d", " ", "d", "u", "e", " ", "t", "o", " ", "t", "i", "m", "e", "o", "u", "t">>

MsgReadChecksum ==
    <<"f", "a", "i", "l", "e", "d", " ", "t", "o", " ", "r", "e", "a", "d", " ", "f", "i", "l", "e", ":", " ", "c", "h", "e", "c", "k", "s", "u", "m", " ", "m", "i", "s", "m", "a", "t", "c", "h">>

MsgUnknown ==
    <<"c", "o", "m", "p", "l", "e", "t", "e", "l", "y", " ", "u", "n", "k", "n", "o", "w", "n", " ", "i", "s", "s", "u", "e">>

MsgRe ==
    <<"r", "e">>

MsgAd ==
    <<"a", "d">>

Keywords ==
    {KwCancel, KwChecksum, KwExtract, KwUnsupportedArchive,
     KwVerify, KwJavaExecutableNotFound, KwRequest, KwNetwork,
     KwTimedOut, KwHttpStatus, KwArchive, KwTopLevelDirectory,
     KwCreate, KwWrite, KwRead, KwRename,
     KwPermission, KwDirectory, KwPath}

Fragments == Keywords \cup {MsgUnknown, MsgRe, MsgAd}

TestMessages == {MsgCancelledTimeout, MsgReadChecksum}

RECURSIVE Concat(_)
Concat(parts) ==
    IF parts = <<>> THEN <<>> ELSE Head(parts) \o Concat(Tail(parts))

\* A message in lower case, in upper case, or with a capital first letter.
Capitalised(s) ==
    IF s = <<>> THEN s ELSE ToAsciiUppercase(<<Head(s)>>) \o Tail(s)

LowerMessages ==
    {Concat(parts) : parts \in UNION {[1..n -> Fragments] : n \in 0..MaxFragments}}
        \cup TestMessages

ErrorMessages ==
    LowerMessages
        \cup {ToAsciiUppercase(m) : m \in LowerMessages}
        \cup {Capitalised(m) : m \in LowerMessages}

ClassifyFrame == UNCHANGED <<installVars, retryVars, catalogVars, writerVars, extractVars, downloadVars, versionVars, resolveVars, checksumVars, configVars, pendingVars, stepVars, updateVars>>

ClassifyIdle ==
    /\ feCalled = FALSE
    /\ feMessage = <<>>
    /\ feReason = "none"

FromErrorMessageCall(error) ==
    /\ ~feCalled
    /\ feCalled' = TRUE
    /\ feMessage' = error
    /\ feReason' = FromErrorMessage(error)
    /\ ClassifyFrame

\* The caller has used the reason.
FromErrorMessageReturn ==
    /\ feCalled
    /\ feCalled' = FALSE
    /\ feMessage' = <<>>
    /\ feReason' = "none"
    /\ ClassifyFrame

ClassifyNext ==
    \/ \E error \in ErrorMessages : FromErrorMessageCall(error)
    \/ FromErrorMessageReturn

-----------------------------------------------------------------------------
\* Checksum verification (core/downloader.rs).

\* Number of distinct byte strings.
NumData == 2

Data == 1..NumData

HexChars ==
    <<"0", "1", "2", "3", "4", "5", "6", "7", "8", "9", "a", "b", "c", "d", "e", "f">>

\* compute_sha256, compute_sha1: hex::encode of the digest, which is a
\* lowercase hex string; distinct data have distinct digests, and the two
\* digests of the same data differ.
ComputeSha256(data) == <<"c", HexChars[data + 1], "e", "2">>

ComputeSha1(data) == <<"f", HexChars[data + 1], "a", "1">>

DeadBeef == <<"d", "e", "a", "d", "b", "e", "e", "f">>

\* The digests as a publisher may write them: in lower or in upper case.
WrittenDigests ==
    LET lower == {ComputeSha256(d) : d \in Data} \cup {ComputeSha1(d) : d \in Data}
                    \cup {DeadBeef}
    IN  lower \cup {ToAsciiUppercase(x) : x \in lower}

ChecksumInputs == {{}} \cup {{x} : x \in WrittenDigests}

\* verify_checksum with the SHA-1 tried first.
VerifyChecksumSha1First(data, sha256, sha1) ==
    IF sha1 # {} THEN ComputeSha1(data) = Only(sha1)
    ELSE IF sha256 # {} THEN ComputeSha256(data) = Only(sha256)
    ELSE TRUE

\* verify_checksum
VerifyChecksum(data, sha256, sha1) ==
    IF sha256 # {} THEN ComputeSha256(data) = Only(sha256)
    ELSE IF sha1 # {} THEN ComputeSha1(data) = Only(sha1)
    ELSE TRUE

ChecksumFrame == UNCHANGED <<installVars, retryVars, catalogVars, writerVars, extractVars, downloadVars, versionVars, resolveVars, classifyVars, configVars, pendingVars, stepVars, updateVars>>

ChecksumIdle ==
    /\ vcCalled = FALSE
    /\ vcData = 1
    /\ vcSha256 = {}
    /\ vcSha1 = {}
    /\ vcResult = FALSE

VerifyChecksumCall(data, sha256, sha1) ==
    /\ ~vcCalled
    /\ vcCalled' = TRUE
    /\ vcData' = data
    /\ vcSha256' = sha256
    /\ vcSha1' = sha1
    /\ vcResult' = VerifyChecksum(data, sha256, sha1)
    /\ ChecksumFrame

\* The caller has used the result.
VerifyChecksumReturn ==
    /\ vcCalled
    /\ vcCalled' = FALSE
    /\ vcData' = 1
    /\ vcSha256' = {}
    /\ vcSha1' = {}
    /\ vcResult' = FALSE
    /\ ChecksumFrame

ChecksumNext ==
    \/ \E data \in Data, sha256 \in ChecksumInputs, sha1 \in ChecksumInputs :
          VerifyChecksumCall(data, sha256, sha1)
    \/ VerifyChecksumReturn

-----------------------------------------------------------------------------
\* Persistent user config (core/java/persistence.rs).

\* Number of distinct paths a user defines.
NumUserPaths == 2

UserPaths == 1..NumUserPaths

\* JavaConfig::default(); last_detection_time is not modelled.
DefaultJavaConfig == [user_defined_paths |-> <<>>, preferred_java_path |-> {}]

ConfigAbsent == [present |-> FALSE, valid |-> FALSE, config |-> DefaultJavaConfig]

ConfigCorrupt == [present |-> TRUE, valid |-> FALSE, config |-> DefaultJavaConfig]

ConfigFile(config) == [present |-> TRUE, valid |-> TRUE, config |-> config]

\* load_java_config: the default config when the file is absent, when
\* read_to_string fails and when the content does not parse.
LoadJavaConfig(file, readOk) ==
    IF ~file.present THEN DefaultJavaConfig
    ELSE IF ~readOk \/ ~file.valid THEN DefaultJavaConfig
    ELSE file.config

\* save_java_config
SaveJavaConfig(file, config, failAt, removeOk) ==
    WriteFileAtomic(file, ConfigAbsent, ConfigFile(config), failAt, removeOk)

InPaths(config, p) ==
    \E i \in 1..Len(config.user_defined_paths) : config.user_defined_paths[i] = p

\* add_user_defined_path: the save outcome of load, push unless known, save.
AddUserDefinedPath(file, p, readOk, failAt, removeOk) ==
    LET config == LoadJavaConfig(file, readOk)
        pushed == IF ~InPaths(config, p)
                  THEN [config EXCEPT !.user_defined_paths = Append(@, p)]
                  ELSE config
    IN  SaveJavaConfig(file, pushed, failAt, removeOk)

\* remove_user_defined_path
RemoveUserDefinedPath(file, p, readOk, failAt, removeOk) ==
    LET config == LoadJavaConfig(file, readOk)
        retained == [config EXCEPT !.user_defined_paths =
                        SelectSeq(@, LAMBDA q : q # p)]
    IN  SaveJavaConfig(file, retained, failAt, removeOk)

\* set_preferred_java_path
SetPreferredJavaPath(file, pref, readOk, failAt, removeOk) ==
    LET config == LoadJavaConfig(file, readOk)
    IN  SaveJavaConfig(file, [config EXCEPT !.preferred_java_path = pref],
                       failAt, removeOk)

NoConfigCall == [op |-> "none", path |-> 0, ok |-> FALSE, before |-> DefaultJavaConfig]

ConfigCall(op, p, out) ==
    [op |-> op, path |-> p, ok |-> out.ok, before |-> LoadJavaConfig(cfFile, TRUE)]

ConfigFrame == UNCHANGED <<installVars, retryVars, catalogVars, writerVars, extractVars, downloadVars, versionVars, resolveVars, classifyVars, checksumVars, pendingVars, stepVars, updateVars>>

ConfigInit ==
    /\ cfFile = ConfigAbsent
    /\ cfLast = NoConfigCall

AddUserDefinedPathCall(p, readOk, failAt, removeOk) ==
    LET out == AddUserDefinedPath(cfFile, p, readOk, failAt, removeOk)
    IN  /\ cfFile' = out.file
        /\ cfLast' = ConfigCall("add", p, out)
        /\ ConfigFrame

RemoveUserDefinedPathCall(p, readOk, failAt, removeOk) ==
    LET out == RemoveUserDefinedPath(cfFile, p, readOk, failAt, removeOk)
    IN  /\ cfFile' = out.file
        /\ cfLast' = ConfigCall("remove", p, out)
        /\ ConfigFrame

SetPreferredJavaPathCall(pref, readOk, failAt, removeOk) ==
    LET out == SetPreferredJavaPath(cfFile, pref, readOk, failAt, removeOk)
    IN  /\ cfFile' = out.file
        /\ cfLast' = ConfigCall("set_preferred", 0, out)
        /\ ConfigFrame

\* The file is damaged outside the program.
ConfigDamaged ==
    /\ cfFile.present
    /\ cfFile' = ConfigCorrupt
    /\ cfLast' = NoConfigCall
    /\ ConfigFrame

PreferredInputs == {{}} \cup {{p} : p \in UserPaths}

ConfigNext ==
    \/ \E p \in UserPaths, readOk \in BOOLEAN, failAt \in WriteFailures,
          removeOk \in BOOLEAN : AddUserDefinedPathCall(p, readOk, failAt, removeOk)
    \/ \E p \in UserPaths, readOk \in BOOLEAN, failAt \in WriteFailures,
          removeOk \in BOOLEAN : RemoveUserDefinedPathCall(p, readOk, failAt, removeOk)
    \/ \E pref \in PreferredInputs, readOk \in BOOLEAN, failAt \in WriteFailures,
          removeOk \in BOOLEAN : SetPreferredJavaPathCall(pref, readOk, failAt, removeOk)
    \/ ConfigDamaged


-----------------------------------------------------------------------------
\* Resume of pending downloads (resume_pending_downloads_with of
\* core/java/mod.rs).  The installs it runs are the install orchestrator's,
\* in call slot 1.

\* Most entries the queue holds when the resume starts.
MaxPending == 2

\* ImageType::parse(..).unwrap_or_else(|| ImageType::Jre)
ParseImageTypeOrJre(its) == IF its = "jdk" THEN "Jdk" ELSE "Jre"

\* Position of a key in the order the initial queues list their entries in.
KeyRank(e) == 2 * e.major_version + (IF e.image_type = "jdk" THEN 1 ELSE 0)

KeysAscending(q) == \A i, j \in 1..Len(q) : i < j => KeyRank(q[i]) < KeyRank(q[j])

\* The directory the pending entries were registered under: not the default
\* one, so that the resume is seen to hand it back to the install.
PendingPath == "custom"

\* The queues earlier installs can have left behind: one entry per key,
\* listed by ascending key.
PendingQueues ==
    {q \in UNION {[1..n -> {PendingJavaDownload(m, t, PendingPath) :
                               m \in Majors, t \in ImageTypes}] : n \in 0..MaxPending} :
        KeysAscending(q)}

\* The install orchestrator at rest over a queue file left by earlier runs.
InstallInitPending ==
    /\ queueFile \in {EmptyFile} \cup {[present |-> TRUE, entries |-> q] : q \in PendingQueues}
    /\ pc = [p \in Procs |-> "idle"]
    /\ call = [p \in Procs |-> NoCall]
    /\ info = [p \in Procs |-> NoInfo]
    /\ memQueue = [p \in Procs |-> <<>>]
    /\ result = [p \in Procs |-> NoResult]
    /\ registered = [p \in Procs |-> FALSE]
    /\ queueAtCall = [p \in Procs |-> EmptyFile]

PendingFrame == UNCHANGED <<retryVars, catalogVars, writerVars, extractVars, downloadVars, versionVars, resolveVars, classifyVars, checksumVars, configVars, stepVars, updateVars>>

PendingIdle ==
    /\ rpPc = "idle"
    /\ rpPending = <<>>
    /\ rpIdx = 1
    /\ rpInstalled = <<>>
    /\ rpFailed = <<>>
    /\ rpTotal = 0
    /\ rpResult = "none"

\* mod.rs:324-327: list_pending, the empty vectors, total_pending.
ResumePendingStart ==
    /\ rpPc = "idle"
    /\ AllIdle
    /\ rpPc' = "loop"
    /\ rpPending' = QueueLoad(queueFile)
    /\ rpIdx' = 1
    /\ rpInstalled' = <<>>
    /\ rpFailed' = <<>>
    /\ rpTotal' = Len(QueueLoad(queueFile))
    /\ rpResult' = "none"
    /\ UNCHANGED installVars
    /\ PendingFrame

\* mod.rs:329-346: the install of the entry the loop is at begins.
ResumeInstallEntry ==
    /\ rpPc = "loop"
    /\ rpIdx <= Len(rpPending)
    /\ InstallStart(1, rpPending[rpIdx].major_version,
                    ParseImageTypeOrJre(rpPending[rpIdx].image_type),
                    rpPending[rpIdx].install_path)

\* The slot of a returned install is free again.
SlotReleased ==
    /\ pc' = [pc EXCEPT ![1] = "idle"]
    /\ call' = [call EXCEPT ![1] = NoCall]
    /\ info' = [info EXCEPT ![1] = NoInfo]
    /\ memQueue' = [memQueue EXCEPT ![1] = <<>>]
    /\ result' = [result EXCEPT ![1] = NoResult]
    /\ registered' = [registered EXCEPT ![1] = FALSE]
    /\ queueAtCall' = [queueAtCall EXCEPT ![1] = EmptyFile]
    /\ UNCHANGED queueFile

\* mod.rs:355-361: ResumeJavaDownloadFailure { .. } of a pending entry.
ResumeJavaDownloadFailure(pending, e) ==
    [major_version |-> pending.major_version,
     image_type |-> pending.image_type,
     install_path |-> pending.install_path,
     error |-> e]

\* The loop stops at the first failed install.
ResumeRecordStopsOnFailure ==
    /\ rpPc = "loop"
    /\ pc[1] = "done"
    /\ IF result[1].status = "ok"
       THEN /\ rpInstalled' = Append(rpInstalled, rpPending[rpIdx])
            /\ rpIdx' = rpIdx + 1
            /\ UNCHANGED rpFailed
       ELSE /\ rpFailed' = Append(rpFailed, ResumeJavaDownloadFailure(rpPending[rpIdx], result[1].err))
            /\ rpIdx' = Len(rpPending) + 1
            /\ UNCHANGED rpInstalled
    /\ SlotReleased
    /\ UNCHANGED <<rpPc, rpPending, rpTotal, rpResult>>
    /\ PendingFrame

\* mod.rs:346-363: the match on the result of the install.
ResumeRecord ==
    /\ rpPc = "loop"
    /\ pc[1] = "done"
    /\ IF result[1].status = "ok"
       THEN /\ rpInstalled' = Append(rpInstalled, rpPending[rpIdx])
            /\ UNCHANGED rpFailed
       ELSE /\ rpFailed' = Append(rpFailed, ResumeJavaDownloadFailure(rpPending[rpIdx], result[1].err))
            /\ UNCHANGED rpInstalled
    /\ rpIdx' = rpIdx + 1
    /\ SlotReleased
    /\ UNCHANGED <<rpPc, rpPending, rpTotal, rpResult>>
    /\ PendingFrame

\* mod.rs:366-370: Ok(ResumeJavaDownloadsResult { .. })
ResumePendingFinish ==
    /\ rpPc = "loop"
    /\ rpIdx > Len(rpPending)
    /\ pc[1] = "idle"
    /\ rpPc' = "done"
    /\ rpResult' = "Ok"
    /\ UNCHANGED <<rpPending, rpIdx, rpInstalled, rpFailed, rpTotal>>
    /\ UNCHANGED installVars
    /\ PendingFrame

PendingNext ==
    \/ ResumePendingStart
    \/ ResumeInstallEntry
    \/ \E p \in Procs : FetchReleaseErr(p)
    \/ \E p \in Procs, s \in Suffixes, c \in BOOLEAN, d \in BOOLEAN :
          FetchReleaseOk(p, s, c, d)
    \/ \E p \in Procs, o \in SaveOutcomes : RegisterPending(p, o)
    \/ \E p \in Procs, e \in BOOLEAN, r \in BOOLEAN, m \in BOOLEAN :
          CheckArchive(p, e, r, m)
    \/ \E p \in Procs, o \in DownloadOutcomes : DownloadWithResume(p, o)
    \/ \E p \in Procs, o \in ExtractOutcomes("zip") \cup ExtractOutcomes("other") :
          ExtractAndLocate(p, o)
    \/ \E p \in Procs : ValidateErr(p)
    \/ \E p \in Procs, o \in SaveOutcomes : ValidateOk(p, o)
    \/ ResumeRecord
    \/ ResumePendingFinish

-----------------------------------------------------------------------------
\* Interleaved installs: download_and_install_java_with_provider is an async
\* fn with no lock, so a second call can start while a first one is
\* suspended at one of its awaits.

\* The calls between their start and their return that are not p.
OthersInFlight(p) == {q \in Procs \ {p} : pc[q] \notin {"idle", "done"}}

\* A call for a key no other running call is installing.
InstallStartInterleaved(p, major, image_type, base) ==
    /\ InstallFrame
    /\ pc[p] = "idle"
    /\ \A q \in OthersInFlight(p) :
          ~(call[q].major = major /\ call[q].image_type = image_type)
    /\ pc' = [pc EXCEPT ![p] = "fetch_release"]
    /\ call' = [call EXCEPT ![p] = [major |-> major, image_type |-> image_type, base |-> base]]
    /\ info' = [info EXCEPT ![p] = NoInfo]
    /\ memQueue' = [memQueue EXCEPT ![p] = <<>>]
    /\ result' = [result EXCEPT ![p] = NoResult]
    /\ registered' = [registered EXCEPT ![p] = FALSE]
    /\ queueAtCall' = [queueAtCall EXCEPT ![p] = queueFile]
    /\ UNCHANGED queueFile

\* install.rs:20-50 in a call that runs beside others: there is no await
\* between DownloadQueue::load (line 36) and queue.save (line 50), so no
\* other call is between its own load and save.
FetchReleaseOkBeside(p, suffix, hasChecksum, mkdirOk) ==
    /\ \A q \in Procs \ {p} : pc[q] # "register"
    /\ FetchReleaseOk(p, suffix, hasChecksum, mkdirOk)

\* The archives the interleaved installs are checked with.
InterleavedSuffixes == {"tar.gz"}

InterleaveNext ==
    \/ \E p \in Procs, m \in Majors :
          InstallStartInterleaved(p, m, "Jre", "appdata/java")
    \/ \E p \in Procs : FetchReleaseErr(p)
    \/ \E p \in Procs, s \in InterleavedSuffixes, c \in BOOLEAN, d \in BOOLEAN :
          FetchReleaseOkBeside(p, s, c, d)
    \/ \E p \in Procs, o \in SaveOutcomes : RegisterPending(p, o)
    \/ \E p \in Procs, e \in BOOLEAN, r \in BOOLEAN, m \in BOOLEAN :
          CheckArchive(p, e, r, m)
    \/ \E p \in Procs, o \in DownloadOutcomes : DownloadWithResume(p, o)
    \/ \E p \in Procs, o \in ExtractOutcomes("zip") :
          ExtractAndLocate(p, o)
    \/ \E p \in Procs : ValidateErr(p)
    \/ \E p \in Procs, o \in SaveOutcomes : ValidateOk(p, o)
    \/ \E p \in Procs : InstallReturn(p)
-----------------------------------------------------------------------------
\* The catalog semaphore under more asset queries than it has permits.

\* Most available releases the server lists: two asset queries each.
MaxReleases == 4

\* The list of n available releases: 8, 9, ...
ReleaseList(n) == [i \in 1..n |-> 7 + i]

QuerySlots == 1..(2 * MaxReleases)

\* The server answers every releases request with one of the lists, or
\* fails them all.
ManyReleaseScripts ==
    {[i \in Attempts |-> RespOk(ReleaseList(n))] : n \in 0..MaxReleases}
        \cup {[i \in Attempts |-> RespStatusErr]}

\* An asset query answered at once, or answered after its three backoff
\* sleeps.
AnsweredAssetScripts ==
    {[i \in Attempts |-> RespOk(<<"a1">>)],
     [i \in Attempts |-> IF i <= CATALOG_REQUEST_RETRIES THEN RespTransportErr
                         ELSE RespOk(<<"a1">>)]}

\* The server has no assets for release 8: its queries fail through all
\* their retries.
AssetScriptsOf(major) ==
    IF major = 8 THEN {[i \in Attempts |-> RespStatusErr]} ELSE AnsweredAssetScripts

\* The asset query of task k against that server.
AssetTaskQueryOf(k) ==
    /\ k \in 1..Len(fcTasks)
    /\ \E sc \in AssetScriptsOf(fcTasks[k].major) : AssetTaskQuery(k, sc)

\* The asset queries between their permit and the end of their retry loop.
QueriesInFlight == {k \in 1..Len(fcTasks) : fcTasks[k].st = "running"}

\* The tasks spawned and still waiting for a permit.
QueriesWaiting == {k \in 1..Len(fcTasks) : fcTasks[k].st = "spawned"}

\* fetch_catalog(force_refresh = true) against a server listing up to
\* MaxReleases releases, the cache directory refusing every write.
PermitsNext ==
    \/ \E r \in BOOLEAN, o \in BOOLEAN : FetchCatalogStart(TRUE, r, o)
    \/ \E sc \in ManyReleaseScripts : FetchReleases(sc)
    \/ \E k \in QuerySlots : AssetTaskAcquire(k)
    \/ \E k \in QuerySlots : AssetTaskQueryOf(k)
    \/ \E fa \in FailedWrites, ro \in BOOLEAN : FetchCatalogCollect(fa, ro)
    \/ FetchCatalogReturn

-----------------------------------------------------------------------------
\* The download semaphore under more tasks than it has permits.

\* Most tasks of one download_files call in this part.
MaxFiles == 11

FileSlots == 1..MaxFiles

\* A call of no task, of one, or of MaxFiles; every task carries a checksum.
ManyTaskConfigs == {[k \in 1..n |-> TRUE] : n \in {0, 1, MaxFiles}}

\* stream::iter(tasks) hands the tasks to buffer_unordered in order, each
\* is polled as it is taken, and the semaphore serves its waiters in order:
\* a task takes its permit after the tasks before it.
TaskAcquireInOrder(k) ==
    /\ \A j \in 1..(k - 1) : j <= Len(dfTasks) => dfTasks[j].st # "waiting"
    /\ TaskAcquire(k)

\* Every file but the first is on disk with the bytes of its checksum; the
\* first is not on disk.
TaskCheckExistingOf(k) ==
    \E e \in BOOLEAN :
        /\ e <=> k > 1
        /\ TaskCheckExisting(k, e, TRUE, TRUE)

\* The server sends the bytes of the checksum, when it sends the body whole.
TaskChunkOf(k) == \E o \in ChunkOutcomes : TaskChunk(k, o, TRUE)

\* The tasks past their permit and not yet ended.
TasksInFlight == {k \in 1..Len(dfTasks) : dfTasks[k].st \notin {"waiting", "ended"}}

TasksWaiting == {k \in 1..Len(dfTasks) : dfTasks[k].st = "waiting"}

BatchNext ==
    \/ \E c \in ManyTaskConfigs : DownloadFilesStart(c)
    \/ \E k \in FileSlots : TaskAcquireInOrder(k)
    \/ \E k \in FileSlots : TaskCheckExistingOf(k)
    \/ \E k \in FileSlots, so \in BOOLEAN, co \in BOOLEAN : TaskRequest(k, so, co)
    \/ \E k \in FileSlots : TaskChunkOf(k)
    \/ DownloadFilesComplete
    \/ DownloadFilesReturn

-----------------------------------------------------------------------------
\* The two semaphores with the runtime scheduling every task that can run.
\* fetch_catalog and download_files share no state; they are run one at a
\* time here.

\* The least numbers of releases and of files with which a task has to wait
\* for a permit.
FewestReleases == CATALOG_MAX_CONCURRENT_REQUESTS \div 2 + 1
FewestFiles == DOWNLOAD_MAX_CONCURRENT + 1

\* The server lists no release or FewestReleases, or fails every request.
WaitingReleaseScripts ==
    {[i \in Attempts |-> RespOk(ReleaseList(n))] : n \in {0, FewestReleases}}
        \cup {[i \in Attempts |-> RespStatusErr]}

\* A call of no task, of one, or of FewestFiles.
WaitingTaskConfigs == {[k \in 1..n |-> TRUE] : n \in {0, 1, FewestFiles}}

FetchCatalogStartAlone(readOk, overflowChecks) ==
    /\ dfPc = "idle"
    /\ FetchCatalogStart(TRUE, readOk, overflowChecks)

DownloadFilesStartAlone(config) ==
    /\ fcPc = "idle"
    /\ DownloadFilesStart(config)

\* A step of the catalog call under way: of the call itself or of the asset
\* query k that is ready for it.
CatalogProgress ==
    /\ fcPc \in {"releases", "assets"}
    /\ \/ \E sc \in WaitingReleaseScripts : FetchReleases(sc)
       \/ \E k \in QuerySlots :
             /\ k <= Len(fcTasks)
             /\ \/ fcTasks[k].st = "spawned" /\ AssetTaskAcquire(k)
                \/ fcTasks[k].st = "running" /\ AssetTaskQueryOf(k)
       \/ \E fa \in FailedWrites, ro \in BOOLEAN : FetchCatalogCollect(fa, ro)

\* A step of the download_files call under way: of the task k that is ready
\* for it, or of the call once every task has ended.
DownloadProgress ==
    /\ dfPc = "running"
    /\ \/ \E k \in FileSlots :
             /\ k <= Len(dfTasks)
             /\ \/ dfTasks[k].st = "waiting" /\ TaskAcquireInOrder(k)
                \/ dfTasks[k].st = "check" /\ TaskCheckExistingOf(k)
                \/ dfTasks[k].st = "request" /\
                      \E so \in BOOLEAN, co \in BOOLEAN : TaskRequest(k, so, co)
                \/ dfTasks[k].st = "stream" /\ TaskChunkOf(k)
       \/ DownloadFilesComplete

SemaphoresNext ==
    \/ \E r \in BOOLEAN, o \in BOOLEAN : FetchCatalogStartAlone(r, o)
    \/ \E c \in WaitingTaskConfigs : DownloadFilesStartAlone(c)
    \/ \E sc \in WaitingReleaseScripts : FetchReleases(sc)
    \/ \E k \in QuerySlots : AssetTaskAcquire(k)
    \/ \E k \in QuerySlots : AssetTaskQueryOf(k)
    \/ \E fa \in FailedWrites, ro \in BOOLEAN : FetchCatalogCollect(fa, ro)
    \/ FetchCatalogReturn
    \/ \E k \in FileSlots : TaskAcquireInOrder(k)
    \/ \E k \in FileSlots : TaskCheckExistingOf(k)
    \/ \E k \in FileSlots, so \in BOOLEAN, co \in BOOLEAN : TaskRequest(k, so, co)
    \/ \E k \in FileSlots : TaskChunkOf(k)
    \/ DownloadFilesComplete
    \/ DownloadFilesReturn

-----------------------------------------------------------------------------
\* One call of download_and_install_java_with_provider, statement by
\* statement, with the files it touches and the progress events it emits.

StepsFrame == UNCHANGED <<installVars, retryVars, catalogVars, writerVars, extractVars, downloadVars, versionVars, resolveVars, classifyVars, checksumVars, configVars, pendingVars, updateVars>>

StepsIdle ==
    /\ jiPc = "idle"
    /\ jiSuffix = "other"
    /\ jiChecksum = FALSE
    /\ jiArchive = FALSE
    /\ jiVersionDir = "absent"
    /\ jiDirAtCall = "absent"
    /\ jiEntry = FALSE
    /\ jiChunks = 0
    /\ jiEvents = <<>>
    /\ jiResult = NoResult

\* What the call can find on disk: an archive left by an earlier attempt, a
\* version_dir holding a valid installation of the same (major, image_type),
\* the queue entry of an attempt that did not finish.
StepsInit ==
    /\ jiPc = "idle"
    /\ jiSuffix = "other"
    /\ jiChecksum = FALSE
    /\ jiArchive \in BOOLEAN
    /\ jiVersionDir \in {"absent", "installed"}
    /\ jiDirAtCall = jiVersionDir
    /\ jiEntry \in BOOLEAN
    /\ jiChunks = 0
    /\ jiEvents = <<>>
    /\ jiResult = NoResult

\* The call returns r.
StepsFinish(r) ==
    /\ jiPc' = "done"
    /\ jiResult' = r

\* app_handle.emit("java-download-progress", JavaDownloadProgress{status, ..})
EmitJavaProgress(status) == jiEvents' = Append(jiEvents, status)

\* DownloadQueue::save of a queue that holds the entry or not (`held`), over
\* a file that did (`before`): written, failed with the old file intact,
\* failed with no file left.
EntryAfterSave(before, held, outcome) ==
    CASE outcome = "ok"          -> held
      [] outcome = "fail_intact" -> before
      [] outcome = "fail_gone"   -> FALSE

\* install.rs:20-50: fetch_release, create_dir_all(install_base), queue.load,
\* queue.add, queue.save.
StepsRegister(fetchOk, suffix, hasChecksum, mkdirOk, outcome) ==
    /\ StepsFrame
    /\ jiPc = "idle"
    /\ IF ~fetchOk
       THEN /\ StepsFinish(Err("fetch_release"))
            /\ UNCHANGED <<jiSuffix, jiChecksum, jiEntry>>
       ELSE /\ jiSuffix' = suffix
            /\ jiChecksum' = hasChecksum
            /\ IF ~mkdirOk
               THEN /\ StepsFinish(Err("create_install_dir"))
                    /\ UNCHANGED jiEntry
               ELSE /\ jiEntry' = EntryAfterSave(jiEntry, TRUE, outcome)
                    /\ IF outcome = "ok"
                       THEN jiPc' = "check_archive" /\ UNCHANGED jiResult
                       ELSE StepsFinish(Err("queue_save"))
    /\ UNCHANGED <<jiArchive, jiVersionDir, jiDirAtCall, jiChunks, jiEvents>>

\* install.rs:52-64: need_download, from the archive on disk.
StepsCheckArchive(readOk, matches) ==
    /\ StepsFrame
    /\ jiPc = "check_archive"
    /\ IF jiArchive /\ jiChecksum /\ ~readOk
       THEN StepsFinish(Err("read_archive"))
       ELSE /\ jiPc' = IF NeedDownload(jiArchive, jiChecksum, matches)
                       THEN "download" ELSE "emit_extracting"
            /\ UNCHANGED jiResult
    /\ UNCHANGED <<jiSuffix, jiChecksum, jiArchive, jiVersionDir, jiDirAtCall,
                   jiEntry, jiChunks, jiEvents>>

\* install.rs:66-75, download_with_resume: a chunk is appended to the
\* archive and reported with status Downloading.
StepsDownloadChunk ==
    /\ StepsFrame
    /\ jiPc = "download"
    /\ jiChunks < MaxChunks
    /\ jiChunks' = jiChunks + 1
    /\ jiArchive' = TRUE
    /\ EmitJavaProgress("Downloading")
    /\ UNCHANGED <<jiPc, jiSuffix, jiChecksum, jiVersionDir, jiDirAtCall, jiEntry, jiResult>>

\* install.rs:66-75: download_with_resume(..).await? returns.
StepsDownloadEnd(outcome) ==
    /\ StepsFrame
    /\ jiPc = "download"
    /\ IF outcome = "ok"
       THEN /\ jiPc' = "emit_extracting"
            /\ jiArchive' = TRUE
            /\ UNCHANGED jiResult
       ELSE /\ StepsFinish(Err(outcome))
            /\ UNCHANGED jiArchive
    /\ UNCHANGED <<jiSuffix, jiChecksum, jiVersionDir, jiDirAtCall, jiEntry, jiChunks, jiEvents>>

\* install.rs:77-88: emit Extracting.
StepsEmitExtracting ==
    /\ StepsFrame
    /\ jiPc = "emit_extracting"
    /\ jiPc' = "replace_version_dir"
    /\ EmitJavaProgress("Extracting")
    /\ UNCHANGED <<jiSuffix, jiChecksum, jiArchive, jiVersionDir, jiDirAtCall,
                   jiEntry, jiChunks, jiResult>>

\* install.rs:90-96: remove_dir_all(version_dir) when it exists, then
\* create_dir_all(version_dir). A remove_dir_all that fails has removed
\* none or some of the tree.
ReplaceOutcomes == {"ok", "remove_failed_untouched", "remove_failed_partial", "create_failed"}

StepsReplaceVersionDir(outcome) ==
    /\ StepsFrame
    /\ jiPc = "replace_version_dir"
    /\ outcome \in {"remove_failed_untouched", "remove_failed_partial"} => jiVersionDir # "absent"
    /\ CASE outcome = "ok" ->
               /\ jiVersionDir' = "empty"
               /\ jiPc' = "extract"
               /\ UNCHANGED jiResult
         [] outcome = "remove_failed_untouched" ->
               /\ UNCHANGED jiVersionDir
               /\ StepsFinish(Err("remove_version_dir"))
         [] outcome = "remove_failed_partial" ->
               /\ jiVersionDir' = "partial"
               /\ StepsFinish(Err("remove_version_dir"))
         [] outcome = "create_failed" ->
               /\ jiVersionDir' = "absent"
               /\ StepsFinish(Err("create_version_dir"))
    /\ UNCHANGED <<jiSuffix, jiChecksum, jiArchive, jiDirAtCall, jiEntry, jiChunks, jiEvents>>

\* install.rs:98-105: extract_tar_gz, or extract_zip and find_top_level_dir,
\* or Err for any other suffix.
UnpackOutcomes(suffix) ==
    IF suffix \in {"tar.gz", "zip"}
    THEN {"ok", "extraction_error", "invalid_archive"}
    ELSE {"unsupported_archive"}

StepsExtract(outcome) ==
    /\ StepsFrame
    /\ jiPc = "extract"
    /\ outcome \in UnpackOutcomes(jiSuffix)
    /\ CASE outcome = "ok" ->
               /\ jiVersionDir' = "extracted"
               /\ jiPc' = "remove_archive"
               /\ UNCHANGED jiResult
         [] outcome \in {"extraction_error", "invalid_archive"} ->
               /\ jiVersionDir' = "partial"
               /\ StepsFinish(Err(outcome))
         [] outcome = "unsupported_archive" ->
               /\ UNCHANGED jiVersionDir
               /\ StepsFinish(Err(outcome))
    /\ UNCHANGED <<jiSuffix, jiChecksum, jiArchive, jiDirAtCall, jiEntry, jiChunks, jiEvents>>

\* install.rs:107: let _ = remove_file(archive_path).
StepsRemoveArchive(removeOk) ==
    /\ StepsFrame
    /\ jiPc = "remove_archive"
    /\ jiPc' = "locate_java"
    /\ jiArchive' = IF removeOk THEN FALSE ELSE jiArchive
    /\ UNCHANGED <<jiSuffix, jiChecksum, jiVersionDir, jiDirAtCall, jiEntry, jiChunks,
                   jiEvents, jiResult>>

\* install.rs:109-120: resolve_java_executable, java_bin.exists(),
\* canonicalize.
StepsLocateJava(exists, canonOk) ==
    /\ StepsFrame
    /\ jiPc = "locate_java"
    /\ IF ~exists THEN StepsFinish(Err("java_not_found"))
       ELSE IF ~canonOk THEN StepsFinish(Err("canonicalize"))
       ELSE jiPc' = "validate" /\ UNCHANGED jiResult
    /\ UNCHANGED <<jiSuffix, jiChecksum, jiArchive, jiVersionDir, jiDirAtCall, jiEntry,
                   jiChunks, jiEvents>>

\* install.rs:122-124: validation::check_java_installation(..).await
StepsValidate(valid) ==
    /\ StepsFrame
    /\ jiPc = "validate"
    /\ IF valid
       THEN /\ jiPc' = "retire"
            /\ jiVersionDir' = "installed"
            /\ UNCHANGED jiResult
       ELSE /\ StepsFinish(Err("validation"))
            /\ UNCHANGED jiVersionDir
    /\ UNCHANGED <<jiSuffix, jiChecksum, jiArchive, jiDirAtCall, jiEntry, jiChunks, jiEvents>>

\* Plausible bug: Completed is emitted before the queue is saved.
StepsRetireEmitsFirst(outcome) ==
    /\ StepsFrame
    /\ jiPc = "retire"
    /\ jiEntry' = EntryAfterSave(jiEntry, FALSE, outcome)
    /\ EmitJavaProgress("Completed")
    /\ IF outcome = "ok"
       THEN jiPc' = "emit_completed" /\ UNCHANGED jiResult
       ELSE StepsFinish(Err("queue_save_final"))
    /\ UNCHANGED <<jiSuffix, jiChecksum, jiArchive, jiVersionDir, jiDirAtCall, jiChunks>>

\* install.rs:126-127: queue.remove(major_version, image_type); queue.save(..)?
StepsRetire(outcome) ==
    /\ StepsFrame
    /\ jiPc = "retire"
    /\ jiEntry' = EntryAfterSave(jiEntry, FALSE, outcome)
    /\ IF outcome = "ok"
       THEN jiPc' = "emit_completed" /\ UNCHANGED jiResult
       ELSE StepsFinish(Err("queue_save_final"))
    /\ UNCHANGED <<jiSuffix, jiChecksum, jiArchive, jiVersionDir, jiDirAtCall, jiChunks,
                   jiEvents>>

\* install.rs:129-142: emit Completed, return Ok(installation).
StepsComplete ==
    /\ StepsFrame
    /\ jiPc = "emit_completed"
    /\ EmitJavaProgress("Completed")
    /\ StepsFinish(Ok)
    /\ UNCHANGED <<jiSuffix, jiChecksum, jiArchive, jiVersionDir, jiDirAtCall, jiEntry,
                   jiChunks>>

StepsNext ==
    \/ \E f \in BOOLEAN, s \in Suffixes, c \in BOOLEAN, d \in BOOLEAN, o \in SaveOutcomes :
          StepsRegister(f, s, c, d, o)
    \/ \E r \in BOOLEAN, m \in BOOLEAN : StepsCheckArchive(r, m)
    \/ StepsDownloadChunk
    \/ \E o \in DownloadOutcomes : StepsDownloadEnd(o)
    \/ StepsEmitExtracting
    \/ \E o \in ReplaceOutcomes : StepsReplaceVersionDir(o)
    \/ \E o \in UnpackOutcomes("zip") \cup UnpackOutcomes("other") : StepsExtract(o)
    \/ \E r \in BOOLEAN : StepsRemoveArchive(r)
    \/ \E e \in BOOLEAN, c \in BOOLEAN : StepsLocateJava(e, c)
    \/ \E v \in BOOLEAN : StepsValidate(v)
    \/ \E o \in SaveOutcomes : StepsRetire(o)
    \/ StepsComplete

-----------------------------------------------------------------------------
\* Config updates running on two threads: add_user_defined_path and
\* set_preferred_java_path are plain functions over the one file, each a
\* load, a change of the local value and a save through write_file_atomic;
\* nothing in persistence.rs serialises them.

Threads == {1, 2}

\* A config saved by an earlier session: one user-defined path, numbered 0.
EarlierConfig == [user_defined_paths |-> <<0>>, preferred_java_path |-> {}]

NoUpdate == [op |-> "none", path |-> 0]

UpdateFrame == UNCHANGED <<installVars, retryVars, catalogVars, writerVars, extractVars, downloadVars, versionVars, resolveVars, classifyVars, checksumVars, configVars, pendingVars, stepVars>>

UpdateIdle ==
    /\ ccFile = ConfigAbsent
    /\ ccTmp = {}
    /\ ccOld = ConfigAbsent
    /\ ccPc = [t \in Threads |-> "idle"]
    /\ ccOp = [t \in Threads |-> NoUpdate]
    /\ ccConfig = [t \in Threads |-> DefaultJavaConfig]
    /\ ccResult = [t \in Threads |-> "none"]
    /\ ccSeen = {}

UpdateInit ==
    /\ ccFile \in {ConfigAbsent, ConfigFile(EarlierConfig)}
    /\ ccTmp = {}
    /\ ccOld = ccFile
    /\ ccPc = [t \in Threads |-> "idle"]
    /\ ccOp = [t \in Threads |-> NoUpdate]
    /\ ccConfig = [t \in Threads |-> DefaultJavaConfig]
    /\ ccResult = [t \in Threads |-> "none"]
    /\ ccSeen = {}

\* The local config after the change of the update (persistence.rs:86-88,
\* 105).
Updated(config, update) ==
    IF update.op = "add"
    THEN IF ~InPaths(config, update.path)
         THEN [config EXCEPT !.user_defined_paths = Append(@, update.path)]
         ELSE config
    ELSE [config EXCEPT !.preferred_java_path = {update.path}]

\* A thread calls add_user_defined_path(path) or
\* set_preferred_java_path(Some(path)).
UpdateCall(t, op, path) ==
    /\ UpdateFrame
    /\ ccPc[t] = "idle"
    /\ ccResult[t] = "none"
    /\ \A u \in Threads \ {t} : ccOp[u] # [op |-> "add", path |-> path] \/ op # "add"
    /\ ccPc' = [ccPc EXCEPT ![t] = "load"]
    /\ ccOp' = [ccOp EXCEPT ![t] = [op |-> op, path |-> path]]
    /\ UNCHANGED <<ccFile, ccTmp, ccOld, ccConfig, ccResult, ccSeen>>

\* persistence.rs:85-88, 104-105: load_java_config and the change of the
\* local value.
UpdateLoad(t) ==
    /\ UpdateFrame
    /\ ccPc[t] = "load"
    /\ ccConfig' = [ccConfig EXCEPT ![t] = Updated(LoadJavaConfig(ccFile, TRUE), ccOp[t])]
    /\ ccPc' = [ccPc EXCEPT ![t] = "write_tmp"]
    /\ UNCHANGED <<ccFile, ccTmp, ccOld, ccOp, ccResult, ccSeen>>

\* persistence.rs:38-41: std::fs::write(&tmp_path, content), the same
\* tmp_path for every caller.
UpdateWriteTmp(t) ==
    /\ UpdateFrame
    /\ ccPc[t] = "write_tmp"
    /\ ccTmp' = {ccConfig[t]}
    /\ ccPc' = [ccPc EXCEPT ![t] = "remove_old"]
    /\ UNCHANGED <<ccFile, ccOld, ccOp, ccConfig, ccResult, ccSeen>>

\* persistence.rs:43-45: if path.exists() { let _ = remove_file(path) }
UpdateRemoveOld(t) ==
    /\ UpdateFrame
    /\ ccPc[t] = "remove_old"
    /\ ccFile' = ConfigAbsent
    /\ ccPc' = [ccPc EXCEPT ![t] = "rename"]
    /\ UNCHANGED <<ccTmp, ccOld, ccOp, ccConfig, ccResult, ccSeen>>

\* persistence.rs:47-48: rename(&tmp_path, path)?; Ok(()). The rename fails
\* when the other thread has renamed the tmp file away.
UpdateRename(t) ==
    /\ UpdateFrame
    /\ ccPc[t] = "rename"
    /\ IF ccTmp = {}
       THEN /\ ccResult' = [ccResult EXCEPT ![t] = "Err"]
            /\ UNCHANGED <<ccFile, ccTmp>>
       ELSE /\ ccFile' = ConfigFile(CHOOSE c \in ccTmp : TRUE)
            /\ ccTmp' = {}
            /\ ccResult' = [ccResult EXCEPT ![t] = "Ok"]
    /\ ccPc' = [ccPc EXCEPT ![t] = "idle"]
    /\ UNCHANGED <<ccOld, ccOp, ccConfig, ccSeen>>

\* A reader calls load_java_config while a save is under way.
LoadDuringSave ==
    /\ UpdateFrame
    /\ \E t \in Threads : ccPc[t] \in {"write_tmp", "remove_old", "rename"}
    /\ ccSeen = {}
    /\ ccSeen' = {LoadJavaConfig(ccFile, TRUE)}
    /\ UNCHANGED <<ccFile, ccTmp, ccOld, ccPc, ccOp, ccConfig, ccResult>>

UpdateNext ==
    \/ \E t \in Threads, op \in {"add", "set_preferred"}, p \in UserPaths : UpdateCall(t, op, p)
    \/ \E t \in Threads : UpdateLoad(t)
    \/ \E t \in Threads : UpdateWriteTmp(t)
    \/ \E t \in Threads : UpdateRemoveOld(t)
    \/ \E t \in Threads : UpdateRename(t)
    \/ LoadDuringSave


-----------------------------------------------------------------------------
\* Specifications, one per subsystem; the other subsystems rest.

InitInstall ==
    /\ InstallInit
    /\ RetryIdle
    /\ CatalogInit
    /\ WriterInit
    /\ ExtractIdle
    /\ DownloadIdle
    /\ VersionIdle
    /\ ResolveIdle
    /\ ClassifyIdle
    /\ ChecksumIdle
    /\ ConfigInit
    /\ PendingIdle
    /\ StepsIdle
    /\ UpdateIdle

SpecInstall == InitInstall /\ [][InstallNext]_vars

InitRetry ==
    /\ RetryInit
    /\ InstallInit
    /\ CatalogInit
    /\ WriterInit
    /\ ExtractIdle
    /\ DownloadIdle
    /\ VersionIdle
    /\ ResolveIdle
    /\ ClassifyIdle
    /\ ChecksumIdle
    /\ ConfigInit
    /\ PendingIdle
    /\ StepsIdle
    /\ UpdateIdle

SpecRetry == InitRetry /\ [][RetryNext]_vars

InitCatalog ==
    /\ CatalogInit
    /\ InstallInit
    /\ RetryIdle
    /\ WriterInit
    /\ ExtractIdle
    /\ DownloadIdle
    /\ VersionIdle
    /\ ResolveIdle
    /\ ClassifyIdle
    /\ ChecksumIdle
    /\ ConfigInit
    /\ PendingIdle
    /\ StepsIdle
    /\ UpdateIdle

SpecCatalog == InitCatalog /\ [][CatalogNext]_vars

SpecAssets == InitCatalog /\ [][AssetsNext]_vars

InitWriter ==
    /\ WriterInit
    /\ InstallInit
    /\ RetryIdle
    /\ CatalogInit
    /\ ExtractIdle
    /\ DownloadIdle
    /\ VersionIdle
    /\ ResolveIdle
    /\ ClassifyIdle
    /\ ChecksumIdle
    /\ ConfigInit
    /\ PendingIdle
    /\ StepsIdle
    /\ UpdateIdle

SpecAtomic == InitWriter /\ [][WriterNext]_vars

InitExtract ==
    /\ InstallInit
    /\ RetryIdle
    /\ CatalogInit
    /\ WriterInit
    /\ ExtractIdle
    /\ DownloadIdle
    /\ VersionIdle
    /\ ResolveIdle
    /\ ClassifyIdle
    /\ ChecksumIdle
    /\ ConfigInit
    /\ PendingIdle
    /\ StepsIdle
    /\ UpdateIdle

SpecExtract == InitExtract /\ [][ExtractNext]_vars

InitDownload ==
    /\ InstallInit
    /\ RetryIdle
    /\ CatalogInit
    /\ WriterInit
    /\ ExtractIdle
    /\ DownloadIdle
    /\ VersionIdle
    /\ ResolveIdle
    /\ ClassifyIdle
    /\ ChecksumIdle
    /\ ConfigInit
    /\ PendingIdle
    /\ StepsIdle
    /\ UpdateIdle

SpecDownload == InitDownload /\ [][DownloadNext]_vars

InitVersion ==
    /\ InstallInit
    /\ RetryIdle
    /\ CatalogInit
    /\ WriterInit
    /\ ExtractIdle
    /\ DownloadIdle
    /\ VersionIdle
    /\ ResolveIdle
    /\ ClassifyIdle
    /\ ChecksumIdle
    /\ ConfigInit
    /\ PendingIdle
    /\ StepsIdle
    /\ UpdateIdle

SpecVersion == InitVersion /\ [][VersionNext]_vars

InitResolve ==
    /\ InstallInit
    /\ RetryIdle
    /\ CatalogInit
    /\ WriterInit
    /\ ExtractIdle
    /\ DownloadIdle
    /\ VersionIdle
    /\ ResolveIdle
    /\ ClassifyIdle
    /\ ChecksumIdle
    /\ ConfigInit
    /\ PendingIdle
    /\ StepsIdle
    /\ UpdateIdle

SpecResolve == InitResolve /\ [][ResolveNext]_vars

InitClassify ==
    /\ InstallInit
    /\ RetryIdle
    /\ CatalogInit
    /\ WriterInit
    /\ ExtractIdle
    /\ DownloadIdle
    /\ VersionIdle
    /\ ResolveIdle
    /\ ClassifyIdle
    /\ ChecksumIdle
    /\ ConfigInit
    /\ PendingIdle
    /\ StepsIdle
    /\ UpdateIdle

SpecClassify == InitClassify /\ [][ClassifyNext]_vars

InitChecksum ==
    /\ InstallInit
    /\ RetryIdle
    /\ CatalogInit
    /\ WriterInit
    /\ ExtractIdle
    /\ DownloadIdle
    /\ VersionIdle
    /\ ResolveIdle
    /\ ClassifyIdle
    /\ ChecksumIdle
    /\ ConfigInit
    /\ PendingIdle
    /\ StepsIdle
    /\ UpdateIdle

SpecChecksum == InitChecksum /\ [][ChecksumNext]_vars

InitConfig ==
    /\ InstallInit
    /\ RetryIdle
    /\ CatalogInit
    /\ WriterInit
    /\ ExtractIdle
    /\ DownloadIdle
    /\ VersionIdle
    /\ ResolveIdle
    /\ ClassifyIdle
    /\ ChecksumIdle
    /\ ConfigInit
    /\ PendingIdle
    /\ StepsIdle
    /\ UpdateIdle

SpecConfig == InitConfig /\ [][ConfigNext]_vars

InitPending ==
    /\ InstallInitPending
    /\ RetryIdle
    /\ CatalogInit
    /\ WriterInit
    /\ ExtractIdle
    /\ DownloadIdle
    /\ VersionIdle
    /\ ResolveIdle
    /\ ClassifyIdle
    /\ ChecksumIdle
    /\ ConfigInit
    /\ PendingIdle
    /\ StepsIdle
    /\ UpdateIdle

SpecPending == InitPending /\ [][PendingNext]_vars

InitInterleave ==
    /\ InstallInit
    /\ RetryIdle
    /\ CatalogInit
    /\ WriterInit
    /\ ExtractIdle
    /\ DownloadIdle
    /\ VersionIdle
    /\ ResolveIdle
    /\ ClassifyIdle
    /\ ChecksumIdle
    /\ ConfigInit
    /\ PendingIdle
    /\ StepsIdle
    /\ UpdateIdle

SpecInterleave == InitInterleave /\ [][InterleaveNext]_vars

InitPermits ==
    /\ CatalogInit
    /\ InstallInit
    /\ RetryIdle
    /\ WriterInit
    /\ ExtractIdle
    /\ DownloadIdle
    /\ VersionIdle
    /\ ResolveIdle
    /\ ClassifyIdle
    /\ ChecksumIdle
    /\ ConfigInit
    /\ PendingIdle
    /\ StepsIdle
    /\ UpdateIdle

SpecPermits == InitPermits /\ [][PermitsNext]_vars

InitBatch ==
    /\ DownloadIdle
    /\ InstallInit
    /\ RetryIdle
    /\ CatalogInit
    /\ WriterInit
    /\ ExtractIdle
    /\ VersionIdle
    /\ ResolveIdle
    /\ ClassifyIdle
    /\ ChecksumIdle
    /\ ConfigInit
    /\ PendingIdle
    /\ StepsIdle
    /\ UpdateIdle

SpecBatch == InitBatch /\ [][BatchNext]_vars

InitSemaphores ==
    /\ CatalogInit
    /\ DownloadIdle
    /\ InstallInit
    /\ RetryIdle
    /\ WriterInit
    /\ ExtractIdle
    /\ VersionIdle
    /\ ResolveIdle
    /\ ClassifyIdle
    /\ ChecksumIdle
    /\ ConfigInit
    /\ PendingIdle
    /\ StepsIdle
    /\ UpdateIdle

\* The runtime polls every task that is ready: a step that stays possible is
\* taken.
SpecSemaphores ==
    InitSemaphores /\ [][SemaphoresNext]_vars
        /\ WF_vars(CatalogProgress) /\ WF_vars(DownloadProgress)

InitSteps ==
    /\ InstallInit
    /\ RetryIdle
    /\ CatalogInit
    /\ WriterInit
    /\ ExtractIdle
    /\ DownloadIdle
    /\ VersionIdle
    /\ ResolveIdle
    /\ ClassifyIdle
    /\ ChecksumIdle
    /\ ConfigInit
    /\ PendingIdle
    /\ StepsInit
    /\ UpdateIdle

SpecSteps == InitSteps /\ [][StepsNext]_vars


InitUpdate ==
    /\ InstallInit
    /\ RetryIdle
    /\ CatalogInit
    /\ WriterInit
    /\ ExtractIdle
    /\ DownloadIdle
    /\ VersionIdle
    /\ ResolveIdle
    /\ ClassifyIdle
    /\ ChecksumIdle
    /\ ConfigInit
    /\ PendingIdle
    /\ StepsIdle
    /\ UpdateInit

SpecUpdate == InitUpdate /\ [][UpdateNext]_vars


-----------------------------------------------------------------------------
\* Properties of the install orchestrator and the pending queue.

\* The failures of a call that come after the entry was saved and before the
\* final queue.save: reading the archive, the download (error, cancellation,
\* checksum mismatch), replacing version_dir, the extraction (error, invalid
\* or unsupported archive), the java executable (missing, not
\* canonicalizable) and the validation.
FailuresAfterRegistration ==
    {"read_archive", "download_error", "cancelled", "checksum_mismatch",
     "remove_version_dir", "create_version_dir", "extraction_error",
     "invalid_archive", "unsupported_archive", "java_not_found",
     "canonicalize", "validation"}

C2_EntryLifetime ==
    \A p \in Procs :
        /\ pc[p] \in {"check_archive", "download", "extract", "validate"}
              => (registered[p] /\ HasEntry(queueFile, call[p].major, CallKeyString(p)))
        /\ (pc[p] = "done" /\ result[p].status = "ok")
              => ~HasEntry(queueFile, call[p].major, CallKeyString(p))
        /\ (pc[p] = "done" /\ result[p] = Err("fetch_release"))
              => (~registered[p] /\ queueFile = queueAtCall[p])

\* C2 witness: a call has returned Ok, its entry is gone and the entry of
\* another key is still queued.
C2_Witness ==
    \E p \in Procs :
        /\ pc[p] = "done"
        /\ result[p].status = "ok"
        /\ registered[p]
        /\ Len(QueueLoad(queueFile)) >= 1

\* C3: the persisted queue never holds two entries of one
\* (major_version, image_type).
C3_OneEntryPerKey ==
    \A m \in Majors, t \in ImageTypes :
        Cardinality(EntriesOf(queueFile, m, ImageTypeToString(t))) <= 1

\* C3 witness: a call has registered a key that was already queued with
\* another payload; the queue holds the new entry alone.
C3_Witness ==
    \E p \in Procs :
        /\ pc[p] = "check_archive"
        /\ \E i \in EntriesOf(queueAtCall[p], call[p].major, CallKeyString(p)) :
              QueueLoad(queueAtCall[p])[i].install_path # call[p].base
        /\ \A i \in EntriesOf(queueFile, call[p].major, CallKeyString(p)) :
              QueueLoad(queueFile)[i].install_path = call[p].base
        /\ Cardinality(EntriesOf(queueFile, call[p].major, CallKeyString(p))) = 1
        /\ Len(QueueLoad(queueFile)) >= 2

-----------------------------------------------------------------------------
\* Properties of the catalog retry loops.

\* The request that gets the first success status, 0 when none does.
FirstSuccess(script) ==
    LET S == {i \in Attempts : IsSuccessStatus(script[i])}
    IN IF S = {} THEN 0 ELSE CHOOSE i \in S : \A j \in S : i <= j

RetryReturned == retryOut # NoLoopOut

\* C4: fetch_available_releases_with_retry sends its requests one after
\* another until the first success status or until
\* CATALOG_REQUEST_RETRIES + 1 requests were sent: with no success status at
\* all it returns NetworkError after exactly CATALOG_REQUEST_RETRIES + 1
\* requests, and the request answered with a success status is its last.
C4_ReleasesRetryCount ==
    (retryFn = "releases" /\ RetryReturned) =>
        IF FirstSuccess(retryScript) = 0
        THEN /\ retryOut.result = "NetworkError"
             /\ retryOut.hits = CATALOG_REQUEST_RETRIES + 1
        ELSE /\ retryOut.hits = FirstSuccess(retryScript)
             /\ retryOut.result \in {"Ok", "SerializationError"}

\* C4 witness: non-success statuses and transport errors on every request, and
\* the loop has returned NetworkError after 4 requests.
C4_Witness ==
    /\ retryFn = "releases"
    /\ RetryReturned
    /\ retryScript[1] = RespStatusErr
    /\ retryScript[2] = RespTransportErr
    /\ FirstSuccess(retryScript) = 0
    /\ retryOut.result = "NetworkError"
    /\ retryOut.hits = 4

\* C5: a success status whose body does not parse is not retried, at whatever
\* attempt it arrives: the request that received it is the last one, and the
\* loop returns SerializationError (releases) or an error (assets); received
\* on the first attempt, that is after exactly one request.
C5_ParseFailureNotRetried ==
    (RetryReturned /\ FirstSuccess(retryScript) > 0
        /\ retryScript[FirstSuccess(retryScript)] = RespBadBody) =>
        /\ retryOut.hits = FirstSuccess(retryScript)
        /\ Len(retryOut.sleeps) = FirstSuccess(retryScript) - 1
        /\ retryFn = "releases" => retryOut.result = "SerializationError"
        /\ retryFn = "assets" => retryOut.result = "ParseError"

\* C5 witness: the first answer is a success status with an unparsable body,
\* the server would have answered the next request properly, and the
\* releases loop has returned SerializationError after one request.
C5_Witness ==
    /\ retryFn = "releases"
    /\ RetryReturned
    /\ retryScript[1] = RespBadBody
    /\ retryScript[2].kind = "ok"
    /\ retryOut.result = "SerializationError"
    /\ retryOut.hits = 1

-----------------------------------------------------------------------------
\* Claims about the catalog client and its cache.

\* The cache file the call began with holds a catalog that parses.
CacheHeld == cacheAtCall.present /\ cacheAtCall.parses

\* The age of that catalog at the read, over the integers.
CacheAge == now - cacheAtCall.catalog.cached_at

\* The call was answered from the cache: the cached catalog, no request and
\* the cache file as it was.
AnsweredFromCache ==
    /\ fcResult = CatalogOk(cacheAtCall.catalog)
    /\ fcRel = NoLoopOut
    /\ fcTasks = <<>>
    /\ cacheFile = cacheAtCall
    /\ fcSave = "none"

\* The call went to the network: at least one request was sent, and a
\* catalog it returns is the one built from the answers and stamped now.
AnsweredFromNetwork ==
    /\ fcRel # NoLoopOut
    /\ fcRel.hits >= 1
    /\ fcResult.status \in {"ok", "err"}
    /\ fcResult.status = "ok" =>
          /\ fcResult.catalog = JavaCatalog(CollectReleases(fcTasks), fcRel.value, now)
          /\ fcSave # "none"

\* C6: fetch_catalog(force_refresh=false) with a fresh cache (one that is
\* read and parses, with now - cached_at < 86400) returns the cached catalog
\* without a request and without rewriting the cache; with
\* force_refresh=true, or a missing or stale cache, it performs the network
\* fetch and does not return the cached copy.
C6_CacheOrRefresh ==
    fcPc = "done" =>
        /\ (~fcForce /\ CacheHeld /\ fcLoad.kind # "Err"
              /\ CacheAge < CACHE_DURATION_SECS) => AnsweredFromCache
        /\ (fcForce \/ ~cacheAtCall.present
              \/ (CacheHeld /\ fcLoad.kind # "Err"
                    /\ CacheAge >= CACHE_DURATION_SECS)) => AnsweredFromNetwork

\* C7: every catalog returned from the cache satisfies
\* now - cached_at < 86400 at the time of the read; a missing cache file, or
\* one with now - cached_at >= 86400 (86400 included), yields None.
C7_CacheTtl ==
    (fcPc # "idle" /\ ~fcForce) =>
        /\ fcLoad.kind = "Some" =>
              /\ CacheHeld
              /\ fcLoad.catalog = cacheAtCall.catalog
              /\ CacheAge < CACHE_DURATION_SECS
        /\ ~cacheAtCall.present => fcLoad.kind = "None"
        /\ (CacheHeld /\ fcLoad.kind # "Err" /\ CacheAge >= CACHE_DURATION_SECS)
              => fcLoad.kind = "None"

\* A cache exactly one cache duration old was read and yielded None.
C7_Witness ==
    /\ fcPc # "idle"
    /\ ~fcForce
    /\ CacheHeld
    /\ CacheAge = CACHE_DURATION_SECS
    /\ fcLoad.kind = "None"

\* C8: a failure of cache I/O never makes fetch_catalog fail: an unreadable
\* or corrupt cache file is handled as a miss (the network fetch proceeds),
\* and a failure to persist the fetched catalog still returns that catalog
\* as Ok; the only errors of the call are those of the releases request.
C8_CacheIoNeverFails ==
    /\ (fcPc # "idle" /\ fcLoad.kind = "Err") =>
          \/ fcPc \in {"releases", "assets"}
          \/ fcPc = "done" /\ AnsweredFromNetwork
    /\ (fcPc = "done" /\ fcSave = "err") =>
          fcResult = CatalogOk(JavaCatalog(CollectReleases(fcTasks), fcRel.value, now))
    /\ (fcPc = "done" /\ fcResult.status = "err") =>
          /\ fcRel.result # "Ok"
          /\ fcResult.err = fcRel.result

\* A call that found its cache unreadable or corrupt, fetched from the
\* network, failed to persist the catalog and returned it.
C8_Witness ==
    /\ fcPc = "done"
    /\ fcLoad.kind = "Err"
    /\ fcSave = "err"
    /\ fcResult.status = "ok"
    /\ Len(fcResult.catalog.releases) > 0

\* The release a catalog holds for an asset query that ended with `query`.
ExpectedRelease(major, image_type, query) ==
    IF query.result = "Ok" /\ Len(query.value) > 0
    THEN [major_version |-> major, image_type |-> image_type,
          version |-> <<AssetSemver(query.value[1])>>,
          file_size |-> AssetSize(query.value[1]),
          download_url |-> AssetLink(query.value[1]),
          is_available |-> TRUE]
    ELSE [major_version |-> major, image_type |-> image_type,
          version |-> <<major, ".x">>, file_size |-> 0,
          download_url |-> "", is_available |-> FALSE]

\* C9: whenever the available-releases request succeeds, fetch_catalog
\* returns Ok with exactly one JavaReleaseInfo for every pair of
\* available_releases x {JRE, JDK}: built from the first asset when the
\* asset query succeeds with a non-empty list, otherwise the sentinel with
\* is_available=false, file_size=0, download_url="" and version
\* "{major}.x"; a failing asset query never makes fetch_catalog fail.
C9_OneReleasePerPair ==
    (fcPc = "done" /\ fcRel.result = "Ok") =>
        /\ fcResult.status = "ok"
        /\ fcResult.catalog.available_major_versions = fcRel.value
        /\ LET available == fcRel.value
               releases == fcResult.catalog.releases
           IN /\ Len(releases) = 2 * Len(available)
              /\ \A i \in 1..Len(available) :
                    /\ releases[2 * i - 1] =
                          ExpectedRelease(available[i], "Jre", fcTasks[2 * i - 1].query)
                    /\ releases[2 * i] =
                          ExpectedRelease(available[i], "Jdk", fcTasks[2 * i].query)
              /\ \A i \in 1..Len(available) : \A t \in ImageTypes :
                    Cardinality({k \in 1..Len(releases) :
                        /\ releases[k].major_version = available[i]
                        /\ releases[k].image_type = t}) = 1

\* A catalog of two majors holding a release built from the first of two
\* assets, a sentinel for an empty answer and a sentinel for a failed query.
C9_Witness ==
    /\ fcPc = "done"
    /\ fcResult.status = "ok"
    /\ Len(fcResult.catalog.releases) = 4
    /\ \E a, b, c \in 1..4 :
          /\ fcTasks[a].query = [result |-> "Ok", value |-> <<"a1", "a2">>]
          /\ fcResult.catalog.releases[a].is_available
          /\ fcTasks[b].query = [result |-> "Ok", value |-> <<>>]
          /\ ~fcResult.catalog.releases[b].is_available
          /\ fcTasks[c].query.result \in {"HttpStatus", "TransportError", "ParseError"}
          /\ ~fcResult.catalog.releases[c].is_available

-----------------------------------------------------------------------------
\* Claims about the atomic file writer.

\* C10: at every point of write_file_atomic(path, content), so after a crash
\* or a failure at any step, the file at path is absent, or holds the
\* complete previous content, or holds the complete new content, never a
\* part of a content; when the call returns Ok the file at path holds
\* exactly the new content.
C10_WriteAtomic ==
    /\ fsPath.exists => fsPath.complete
    /\ wPc # "idle" =>
          \/ fsPath = NoFile
          \/ fsPath = wOld
          \/ fsPath = File(wContent, TRUE)
    /\ (wPc = "done" /\ wResult = "Ok") => fsPath = File(wContent, TRUE)

\* A call that replaces an older content died after it removed the old file,
\* with the new content complete in the temporary file only.
C10_Witness ==
    /\ wPc = "crashed"
    /\ wOld.exists
    /\ wOld.data # wContent
    /\ fsPath = NoFile
    /\ fsTmp = File(wContent, TRUE)

-----------------------------------------------------------------------------
\* Claims about archive extraction.

\* C11: each file or directory extract_tar_gz or extract_zip creates lies
\* lexically inside the extraction root: nothing is ever written at a path
\* with a parent-directory (..) component or an absolute root, also when the
\* extraction ends in an error.
C11_WritesInsideRoot ==
    \A path \in exLast : ~HasUnsafeComponent(path)

\* C12: an archive with an entry that has a parent-directory (..) component
\* or an absolute path makes the extraction fail with an error, for
\* extract_tar_gz and extract_zip alike; the entry is never skipped with the
\* extraction going on to succeed.
C12_UnsafeEntryFatal ==
    (exPc = "done" /\ exUnsafe) => exResult.status = "err"

-----------------------------------------------------------------------------
\* Claims about the download stage of the installer.

\* C13: download_and_install skips the download exactly when the archive
\* file already exists and the declared checksum matches its bytes; in every
\* other case (archive absent, checksum mismatch, or archive present with no
\* declared checksum) it invokes the resumable downloader before extracting.
C13_SkipsDownloadIffVerified ==
    \A p \in Procs :
        pc[p] \in {"extract", "validate"} =>
            (~info[p].downloaded <=> info[p].archive = "match")

-----------------------------------------------------------------------------
\* Claims about the download engine.

\* C14: no download is reported as successful with bytes that do not match
\* a supplied checksum: a download_files task that carries a sha1 or sha256
\* never emits Finished, and download_with_resume never returns Ok, when the
\* bytes on disk at the end of the transfer differ from the checksum.
C14_NoSuccessOnMismatch ==
    /\ \A k \in 1..Len(dfTasks) :
          (dfTasks[k].sum /\ dfTasks[k].last.status = "Finished") => dfTasks[k].diskOk
    /\ (rsSum /\ rsResult = "Ok") => rsDiskOk

\* Some step of task k of download_files can be taken.
TaskCanStep(k) ==
    \/ ENABLED TaskAcquire(k)
    \/ ENABLED TaskCheckExisting(k, FALSE, FALSE, FALSE)
    \/ ENABLED TaskRequest(k, TRUE, TRUE)
    \/ ENABLED TaskChunk(k, "eof", TRUE)

C16_CooperativeCancel ==
    /\ [][(rsPc = "check" /\ cancelFlag /\ rsPc' # "check") =>
             /\ rsPc' = "done"
             /\ rsResult' = "Cancelled"
             /\ rsWritten' = rsWritten]_vars
    /\ [][(rsResult = "Cancelled") =>
             /\ rsWritten' = rsWritten \/ rsPc' = "idle"
             /\ rsEntry' = rsEntry \/ rsPc' = "idle"]_vars
    /\ [](rsResult = "Cancelled" => rsEntry)
    /\ [](\A k \in 1..Len(dfTasks) :
             /\ (cancelFlag /\ dfPc = "running" /\ dfTasks[k].st # "ended") => TaskCanStep(k)
             /\ dfTasks[k].outcome \in {"none", "skipped", "finished", "request_error",
                                        "create_error", "write_error", "stream_error"})

\* A download was cancelled after it had written a chunk, and the installer
\* has returned with its entry still in the queue.
C16_Witness ==
    /\ rsPc = "returned"
    /\ rsResult = "Cancelled"
    /\ rsWritten > 0
    /\ cancelFlag
    /\ rsEntry

-----------------------------------------------------------------------------
\* Properties of the compatibility resolver.

\* major lies inside the window [min, max]; a bound that is None is open.
InWindow(major, min, max) ==
    /\ (min = {} \/ U32AtLeastU64(major, Only(min)))
    /\ (max = {} \/ major <= Only(max))

\* The candidate of a layer validated and lies inside the window.
CandidateInWindow(cand) ==
    cand.java # {} /\ InWindow(Major(Only(cand.java)), rjMin, rjMax)

\* The positions of installations that lie inside the window.
ListInWindow ==
    {i \in 1..Len(rjList) : InWindow(Major(rjList[i]), rjMin, rjMax)}

NoLayerInWindow == \A n \in 1..Len(rjTried) : ~CandidateInWindow(rjTried[n])

\* C17: resolve_java_for_launch returns the installation of the first layer
\* (instance override, global override, preferred path, detected plus
\* managed installations) whose candidate validates and lies inside the
\* window; an empty, invalid or out-of-window candidate falls through to the
\* next layer, and the last layer returns the compatible installation with
\* the highest parsed major version.
C17_LayeredResolution ==
    rjFn = "resolve" =>
        /\ \A n \in 1..Len(rjTried) :
              CandidateInWindow(rjTried[n])
                  <=> (rjPc = "done" /\ rjLayer = n /\ rjResult = rjTried[n].java)
        /\ (rjPc = "done" /\ rjLayer \notin 1..3) => Len(rjTried) = 3
        /\ (rjPc = "done" /\ Len(rjTried) = 3 /\ NoLayerInWindow) =>
              IF ListInWindow = {}
              THEN rjResult = {}
              ELSE /\ rjLayer = 4
                   /\ \E i \in ListInWindow : rjResult = {rjList[i]}
                   /\ \A i \in ListInWindow :
                         Major(rjList[i]) <= Major(Only(rjResult))

\* C18: resolve_java_for_launch and get_compatible_java never return an
\* installation whose parsed major version is outside the window, and they
\* return None exactly when no candidate of any layer validates and lies
\* inside the window.
C18_NeverOutOfWindow ==
    (rjPc = "done" /\ rjFn \in {"resolve", "compatible"}) =>
        /\ rjResult # {} => InWindow(Major(Only(rjResult)), rjMin, rjMax)
        /\ rjResult = {} <=> (NoLayerInWindow /\ ListInWindow = {})

\* C19: the verdict of is_version_compatible, and of the comparison of
\* get_recommended_java, is (min is None or major >= min) and (max is None
\* or major <= max), for every min of the 64-bit parameter type.
C19_VersionComparison ==
    (rjFn \in {"resolve", "recommended"} /\ rjChecked # {}) =>
        Only(rjChecked).verdict = InWindow(Only(rjChecked).major, rjMin, rjMax)

-----------------------------------------------------------------------------
\* Properties of version parsing.

\* The field of a version string that ends before its first '.' or '-'.
RECURSIVE LeadingField(_)
LeadingField(s) ==
    IF s = <<>> \/ Head(s) \in {".", "-"} THEN <<>>
    ELSE <<Head(s)>> \o LeadingField(Tail(s))

IsInteger(field) ==
    field # <<>> /\ \A i \in 1..Len(field) : IsDigit(field[i])

\* A legacy version string: "1." and then an integer field X.
IsLegacy(s) ==
    /\ Len(s) >= 3
    /\ s[1] = "1"
    /\ s[2] = "."
    /\ IsInteger(LeadingField(SubSeq(s, 3, Len(s))))

\* The major version the stated rules give a version string.
StatedMajor(s) ==
    IF IsLegacy(s) THEN DigitsValue(LeadingField(SubSeq(s, 3, Len(s))))
    ELSE IF IsInteger(LeadingField(s)) THEN DigitsValue(LeadingField(s))
    ELSE 0

\* C20: parse_java_version returns X for a legacy "1.X..." string, the
\* leading integer before the first '.' or '-' of any other string that has
\* one ("17.0.1", "21" and "11-ea" give 17, 21 and 11), and 0 for every
\* other string, the empty string included.
C20_ParsedMajor ==
    pjCalled =>
        /\ pjMajor = StatedMajor(pjVersion)
        /\ (pjVersion = LegacyVersion => pjMajor = 8)
        /\ (pjVersion = DottedVersion => pjMajor = 17)
        /\ (pjVersion = BareVersion => pjMajor = 21)
        /\ (pjVersion = EarlyAccessVersion => pjMajor = 11)
        /\ (pjVersion = <<>> => pjMajor = 0)

-----------------------------------------------------------------------------
\* Properties of the resume failure classifier.

\* The rules in their stated priority order.
ClassifierRules ==
    << [reason |-> "Cancelled", triggers |-> {KwCancel}],
       [reason |-> "ChecksumMismatch", triggers |-> {KwChecksum}],
       [reason |-> "ExtractionFailed", triggers |-> {KwExtract, KwUnsupportedArchive}],
       [reason |-> "VerificationFailed",
        triggers |-> {KwVerify, KwJavaExecutableNotFound}],
       [reason |-> "Network",
        triggers |-> {KwRequest, KwNetwork, KwTimedOut, KwHttpStatus}],
       [reason |-> "InvalidArchive", triggers |-> {KwArchive, KwTopLevelDirectory}],
       [reason |-> "Filesystem",
        triggers |-> {KwCreate, KwWrite, KwRead, KwRename, KwPermission,
                      KwDirectory, KwPath}] >>

\* The rules one of whose triggers occurs in the lowercased message.
MatchingRules(message) ==
    LET lower == ToAsciiLowercase(message)
    IN  {r \in 1..Len(ClassifierRules) :
            \E t \in ClassifierRules[r].triggers : Contains(lower, t)}

StatedReason(message) ==
    LET hits == MatchingRules(message)
    IN  IF hits = {} THEN "Unknown"
        ELSE ClassifierRules[CHOOSE r \in hits : \A q \in hits : r <= q].reason

\* C21: from_error_message returns the reason of the first rule, in the
\* fixed priority order, one of whose triggers is a substring of the
\* lowercased message, and Unknown when none occurs; cancel beats network,
\* checksum beats filesystem, and letter case never changes the result.
C21_FirstRuleWins ==
    feCalled =>
        /\ feReason = StatedReason(feMessage)
        /\ feReason = FromErrorMessage(ToAsciiUppercase(feMessage))
        /\ (ToAsciiLowercase(feMessage) = MsgCancelledTimeout => feReason = "Cancelled")
        /\ (ToAsciiLowercase(feMessage) = MsgReadChecksum => feReason = "ChecksumMismatch")

C21_Witness ==
    /\ feCalled
    /\ feMessage = ToAsciiUppercase(MsgCancelledTimeout)
    /\ Cardinality(MatchingRules(feMessage)) > 1
    /\ feReason = "Cancelled"

-----------------------------------------------------------------------------
\* Properties of checksum verification.

\* An expected checksum names the digest, whatever the case of its letters.
NamesDigest(expected, digest) == ToAsciiLowercase(expected) = digest

\* C22: verify_checksum is decided by the SHA-256 alone when one is
\* supplied (the SHA-1 has no influence), by the SHA-1 when only that is
\* supplied, and is true when neither is: the SHA-256 of the data is
\* accepted with any SHA-1, a wrong SHA-256 is refused even with the right
\* SHA-1.
C22_Sha256Authoritative ==
    vcCalled =>
        /\ vcSha256 # {} =>
              /\ vcResult = VerifyChecksum(vcData, vcSha256, {})
              /\ \A s \in ChecksumInputs :
                    vcResult = VerifyChecksum(vcData, vcSha256, s)
              /\ vcSha256 = {ComputeSha256(vcData)} => vcResult
              /\ ~NamesDigest(Only(vcSha256), ComputeSha256(vcData)) => ~vcResult
        /\ (vcSha256 = {} /\ vcSha1 # {}) =>
              /\ vcSha1 = {ComputeSha1(vcData)} => vcResult
              /\ ~NamesDigest(Only(vcSha1), ComputeSha1(vcData)) => ~vcResult
        /\ (vcSha256 = {} /\ vcSha1 = {}) => vcResult

C22_Witness ==
    /\ vcCalled
    /\ vcSha256 = {DeadBeef}
    /\ vcSha1 = {ComputeSha1(vcData)}
    /\ ~vcResult

\* C23: verify_checksum compares hex digests case-insensitively: an
\* expected checksum that differs from the computed digest only in the case
\* of its hex letters is accepted.
C23_CaseInsensitive ==
    vcCalled =>
        /\ (vcSha256 # {} /\ NamesDigest(Only(vcSha256), ComputeSha256(vcData)))
              => vcResult
        /\ (vcSha256 = {} /\ vcSha1 # {}
                /\ NamesDigest(Only(vcSha1), ComputeSha1(vcData)))
              => vcResult

-----------------------------------------------------------------------------
\* Properties of the persistent user config.

\* The config as the next load reads it.
PersistedConfig == LoadJavaConfig(cfFile, TRUE)

NoDuplicatePath(config) ==
    \A i, j \in 1..Len(config.user_defined_paths) :
        config.user_defined_paths[i] = config.user_defined_paths[j] => i = j

\* C24: add_user_defined_path(p) applied twice leaves the same persisted
\* config as applied once; user_defined_paths never has a duplicate; after
\* remove_user_defined_path(p) it has no occurrence of p; neither operation
\* changes preferred_java_path.
C24_UserPathsSet ==
    /\ NoDuplicatePath(PersistedConfig)
    /\ (cfLast.op = "add" /\ cfLast.ok) =>
          /\ InPaths(PersistedConfig, cfLast.path)
          /\ PersistedConfig.preferred_java_path = cfLast.before.preferred_java_path
          /\ \A readOk \in BOOLEAN, removeOk \in BOOLEAN :
                AddUserDefinedPath(cfFile, cfLast.path, readOk, "none", removeOk).file
                    = cfFile
    /\ (cfLast.op = "remove" /\ cfLast.ok) =>
          /\ ~InPaths(PersistedConfig, cfLast.path)
          /\ PersistedConfig.preferred_java_path = cfLast.before.preferred_java_path

-----------------------------------------------------------------------------
\* Properties of the resume of pending downloads.

SameEntry(a, b) ==
    /\ a.major_version = b.major_version
    /\ a.image_type = b.image_type
    /\ a.install_path = b.install_path

InSeq(entries, e) == \E i \in 1..Len(entries) : SameEntry(entries[i], e)

EntryQueued(e) == HasEntry(queueFile, e.major_version, e.image_type)

\* Every pending entry is in exactly one of the two vectors, the sizes add
\* up to total_pending, and the call returned Ok.
ResumeAccounted ==
    /\ rpResult = "Ok"
    /\ rpTotal = Len(rpPending)
    /\ Len(rpInstalled) + Len(rpFailed) = rpTotal
    /\ \A i \in 1..Len(rpPending) :
          InSeq(rpInstalled, rpPending[i]) # InSeq(rpFailed, rpPending[i])

\* The installs run one after the other, one per entry, in queue order.
ResumeSequential ==
    /\ Len(rpInstalled) + Len(rpFailed) = rpIdx - 1
    /\ pc[1] # "idle" =>
          /\ rpIdx <= Len(rpPending)
          /\ call[1].major = rpPending[rpIdx].major_version
          /\ ImageTypeToString(call[1].image_type) = rpPending[rpIdx].image_type
          /\ call[1].base = rpPending[rpIdx].install_path
    /\ \A p \in Procs \ {1} : pc[p] = "idle"

SaveFailed(f) == f.error \in {"queue_save", "queue_save_final"}

-----------------------------------------------------------------------------
\* Properties of interleaved installs.

\* The call has saved its entry and has not come to its validation's end.
InFlightRegistered(p) ==
    pc[p] \in {"check_archive", "download", "extract", "validate"}

SaveErrors == {"queue_save", "queue_save_final"}

\* The step is a call failing at a save of the queue.
SaveFails ==
    \E p \in Procs : result'[p].err \in SaveErrors /\ result[p].err \notin SaveErrors

EntryOfCall(file, p) == HasEntry(file, call[p].major, CallKeyString(p))

\* C26: when two download_and_install calls for different keys interleave,
\* the completion or failure of one never removes the other's entry from
\* the persisted queue: the entry of a call in flight stays in the queue
\* file through every step that leaves the call in flight.  (A step in
\* which a save of the queue fails is left aside.)
C26_EntrySurvivesOtherInstall ==
    [][~SaveFails =>
          \A p \in Procs :
              (InFlightRegistered(p) /\ pc'[p] = pc[p] /\ EntryOfCall(queueFile, p))
                  => EntryOfCall(queueFile', p)]_vars

-----------------------------------------------------------------------------
\* Properties of the two semaphores.

\* C27: during fetch_catalog at most 6 asset queries are in flight, from the
\* permit to the end of the retry loop with its backoff sleeps, whatever the
\* number of available releases.
C27_AtMostSixQueries ==
    /\ Cardinality(QueriesInFlight) <= 6
    /\ Cardinality(QueriesInFlight) <= CATALOG_MAX_CONCURRENT_REQUESTS

\* Six queries are in flight and a seventh task is waiting for a permit.
C27_Witness ==
    /\ Cardinality(QueriesInFlight) = 6
    /\ QueriesWaiting # {}
    /\ \E k \in 1..Len(fcTasks) : fcTasks[k].st = "done" /\ fcTasks[k].query.result # "Ok"

\* C28: during download_files at most 10 tasks are past permit acquisition
\* and not yet ended, whatever the number of tasks.
C28_AtMostTenTasks ==
    /\ Cardinality(TasksInFlight) <= 10
    /\ Cardinality(TasksInFlight) <= DOWNLOAD_MAX_CONCURRENT

\* Ten tasks are in flight, the first of them streaming its body, and an
\* eleventh is waiting.
C28_Witness ==
    /\ Cardinality(TasksInFlight) = 10
    /\ TasksWaiting # {}
    /\ dfTasks[1].st = "stream"
    /\ dfTasks[1].chunks > 0

\* Held plus free permits are the capacity, in both semaphores.
PermitsConserved ==
    /\ permits + Cardinality(QueriesInFlight) = CATALOG_MAX_CONCURRENT_REQUESTS
    /\ dfPermits + Cardinality(TasksInFlight) = DOWNLOAD_MAX_CONCURRENT

\* download-complete has been emitted, every task having taken its permit
\* and ended.
DownloadComplete ==
    dfPc = "done" /\ dfCompleteEvents = 1 /\ TasksWaiting = {} /\ AllTasksEnded

\* fetch_catalog has the release of every query, each having taken its
\* permit and ended.
CatalogCollected ==
    /\ fcPc = "done"
    /\ fcResult.status = "ok"
    /\ QueriesWaiting = {}
    /\ Len(fcResult.catalog.releases) = Len(fcTasks)

\* A task leaves the wait for its permit by taking one.
WaitEndsWithPermit ==
    /\ \A k \in QueriesWaiting : k \in QueriesWaiting' \/ fcTasks'[k].st = "running"
    /\ \A k \in TasksWaiting : k \in TasksWaiting' \/ dfTasks'[k].st = "check"

-----------------------------------------------------------------------------
\* Properties of the backoff of the catalog retry loops.

\* The sleeps of a loop that sent n requests: 300, 600, 1200 ms, as many as
\* the requests but one.
StatedSleeps(n) == SubSeq(<<300, 600, 1200>>, 1, n - 1)

\* C30: in both catalog retry loops the sleep between attempt k and attempt
\* k + 1 is base_delay x 2^k for k = 0, 1, 2 (300, 600, 1200 ms with base
\* 300 ms), the number of sleeps is the number of requests minus one, and no
\* sleep happens after a success-status response or after the final attempt.
C30_BackoffSleeps ==
    RetryReturned =>
        /\ Len(retryOut.sleeps) = retryOut.hits - 1
        /\ retryOut.sleeps = StatedSleeps(retryOut.hits)
        /\ \A k \in 0..(Len(retryOut.sleeps) - 1) :
              /\ k \in {0, 1, 2}
              /\ retryOut.sleeps[k + 1] = CATALOG_RETRY_BASE_DELAY_MS * 2 ^ k
              /\ ~IsSuccessStatus(retryScript[k + 1])
        /\ FirstSuccess(retryScript) > 0 =>
              Len(retryOut.sleeps) = FirstSuccess(retryScript) - 1
        /\ FirstSuccess(retryScript) = 0 =>
              Len(retryOut.sleeps) = CATALOG_REQUEST_RETRIES

\* The assets loop got a success status at its fourth and last request after
\* sleeping 300, 600 and 1200 ms.
C30_Witness ==
    /\ retryFn = "assets"
    /\ RetryReturned
    /\ FirstSuccess(retryScript) = 4
    /\ retryOut.hits = 4
    /\ retryOut.sleeps = <<300, 600, 1200>>

-----------------------------------------------------------------------------
\* Properties of one install call, statement by statement (SpecSteps).

\* How many events of the status the call has emitted.
EventCount(status) == Cardinality({i \in 1..Len(jiEvents) : jiEvents[i] = status})

\* The positions of the call at which the download phase has not ended.
BeforeExtracting == {"idle", "check_archive", "download", "emit_extracting"}

\* The errors of the statements before the Extracting event.
ErrorsBeforeExtracting ==
    {"fetch_release", "create_install_dir", "queue_save", "read_archive"}
        \cup (DownloadOutcomes \ {"ok"})

\* The call has got past its download phase: the archive was found or
\* download_with_resume returned Ok.
DownloadPhaseEnded ==
    /\ jiPc \notin BeforeExtracting
    /\ jiPc = "done" => jiResult.err \notin ErrorsBeforeExtracting

\* C31: in one download_and_install run the java-download-progress statuses
\* follow Downloading* then Extracting then Completed: Extracting is emitted
\* once, when the download phase has ended, and no Downloading event follows
\* it; Completed is emitted at most once, after Extracting, exactly when the
\* call returns Ok, and after the queue entry has been removed.
C31_ProgressOrder ==
    /\ \A i \in 1..Len(jiEvents), j \in 1..Len(jiEvents) :
          i < j => /\ jiEvents[i] = "Extracting" => jiEvents[j] = "Completed"
                   /\ jiEvents[i] # "Completed"
    /\ EventCount("Extracting") = (IF DownloadPhaseEnded THEN 1 ELSE 0)
    /\ EventCount("Completed") > 0 =>
          /\ EventCount("Extracting") = 1
          /\ ~jiEntry
          /\ jiPc = "done"
    /\ jiPc = "done" => (jiResult = Ok <=> EventCount("Completed") = 1)

\* The call has downloaded the archive in chunks, installed it and returned
\* Ok with Downloading, Downloading, Extracting, Completed emitted.
C31_Witness ==
    /\ jiPc = "done"
    /\ jiResult = Ok
    /\ jiEvents = <<"Downloading", "Downloading", "Extracting", "Completed">>


\* C34: the archive is deleted only after the extracted Java has been
\* validated: a call that fails because the java executable is missing or
\* because validation fails leaves the archive on disk.
C34_ArchiveKeptUntilValidated ==
    (jiPc = "done" /\ jiResult.err \in {"java_not_found", "validation"}) => jiArchive

\* C36: a call that returns an error leaves a version_dir that held a valid
\* installation before the call as it was.
C36_FailedReinstallKeepsInstallation ==
    (jiPc = "done" /\ jiResult.status = "err" /\ jiDirAtCall = "installed")
        => jiVersionDir = "installed"


-----------------------------------------------------------------------------
\* Properties of the progress events of download_files (SpecDownload).

\* The outcomes of a task that returned Err.
FailedOutcomes == {"request_error", "create_error", "stream_error", "write_error"}

\* C32: for one file, the downloaded byte count carried by successive
\* progress events never decreases, from the first event for that file to
\* its terminal event.
C32_DownloadedNeverDecreases ==
    [][\A k \in 1..Len(dfTasks) :
          (dfPc = "running" /\ dfPc' = "running") =>
              dfTasks'[k].last.downloaded >= dfTasks[k].last.downloaded]_vars

\* C33: every download_files task that fails has emitted a download-progress
\* event with status Error for its file by the time download-complete is
\* emitted.
C33_FailedTaskEmitsError ==
    dfCompleteEvents > 0 =>
        \A k \in 1..Len(dfTasks) :
            dfTasks[k].outcome \in FailedOutcomes => dfTasks[k].last.status = "Error"


-----------------------------------------------------------------------------
\* Properties of the cached_at stamp (SpecCatalog).

\* The cache file holds a catalog that parses.
Stamped(file) == file.present /\ file.parses

\* C35: across successful catalog refreshes the cached_at stamped and
\* persisted by a later refresh is greater than or equal to that of the
\* refresh before it, and a call answered from the cache never changes
\* cached_at.
C35_CachedAtAdvances ==
    [][/\ (Stamped(cacheFile) /\ Stamped(cacheFile')) =>
              cacheFile'.catalog.cached_at >= cacheFile.catalog.cached_at
       /\ (fcPc' = "done" /\ fcLoad'.kind = "Some") => cacheFile' = cacheFile]_vars

\* C37: load_cached_catalog_result evaluates now - cached_at without an
\* arithmetic error for every cached_at stored in the cache file, a cached_at
\* greater than the current time included: the read completes with a value.
C37_AgeWithoutUnderflow ==
    /\ fcLoad.kind # "Panic"
    /\ fcResult # CatalogPanic


-----------------------------------------------------------------------------
\* Properties of config updates on two threads (SpecUpdate).

\* The config holds the effect of the update.
HoldsUpdate(config, update) ==
    IF update.op = "add" THEN InPaths(config, update.path)
    ELSE config.preferred_java_path = {update.path}

\* Both threads have run an update and both updates returned Ok.
BothReturnedOk == \A t \in Threads : ccPc[t] = "idle" /\ ccResult[t] = "Ok"

\* C38: when two config updates run concurrently (two add_user_defined_path
\* calls with different paths, or an add and a set_preferred_java_path),
\* neither is lost: the persisted config after both have returned Ok holds
\* the effect of both; and a load that overlaps a save returns the old or a
\* new config, never the default one.
C38_NoLostUpdate ==
    /\ (BothReturnedOk /\ \E t \in Threads : ccOp[t].op = "add") =>
          \A t \in Threads : HoldsUpdate(LoadJavaConfig(ccFile, TRUE), ccOp[t])
    /\ ccOld = ConfigFile(EarlierConfig) => DefaultJavaConfig \notin ccSeen


-----------------------------------------------------------------------------
\* Properties of the detection scans (SpecResolve).

NoSharedPath(list) ==
    \A i \in 1..Len(list), j \in 1..Len(list) : i < j => list[i].path # list[j].path

MajorsNonIncreasing(list) ==
    \A i \in 1..Len(list), j \in 1..Len(list) : i < j => Major(list[i]) >= Major(list[j])

PositionIn(list, java) == CHOOSE i \in 1..Len(list) : list[i] = java

\* `after` holds the installations of `before`, those of equal major in the
\* order they have in `before`.
KeepsCandidateOrder(before, after) ==
    /\ Len(after) = Len(before)
    /\ \A i \in 1..Len(before) : \E k \in 1..Len(after) : after[k] = before[i]
    /\ \A i \in 1..Len(before), j \in 1..Len(before) :
          (i < j /\ Major(before[i]) = Major(before[j])) =>
              PositionIn(after, before[i]) < PositionIn(after, before[j])

Scanning == rjPc \in {"detect", "managed"}

\* C39: detect_java_installations and detect_all_java_installations return a
\* list in which no two installations share a path and the parsed major
\* versions are in non-increasing order, installations of equal major kept
\* in candidate order; a candidate that fails validation is dropped without
\* making the scan fail.
C39_DetectionOrder ==
    [][/\ Scanning =>
              /\ PushUnlessKnown(rjList, {}) = rjList
              /\ rjPc' \in {"detect", "managed", "find"}
       /\ (Scanning /\ rjPc' = rjPc) =>
              /\ rjList' = rjList \/ \E java \in UNION ProbeResults : rjList' = Append(rjList, java)
              /\ NoSharedPath(rjList')
       /\ (Scanning /\ rjPc' # rjPc) =>
              /\ KeepsCandidateOrder(rjList, rjList')
              /\ NoSharedPath(rjList')
              /\ MajorsNonIncreasing(rjList')
       /\ rjPc' = "find" => NoSharedPath(rjList') /\ MajorsNonIncreasing(rjList')]_vars

\* detect_all_java_installations has returned two installations of one
\* major version, the one of the higher-numbered path first, and a scan of
\* the system candidates and of the managed directory lies behind it.
C39_Witness ==
    /\ rjFn = "compatible"
    /\ rjPc = "find"
    /\ Len(rjList) >= 2
    /\ Major(rjList[1]) = Major(rjList[2])
    /\ rjList[1].path > rjList[2].path


=============================================================================
